---------------------------- MODULE Spec2Model ----------------------------
(***************************************************************************)
(* A model of the Video Game Tracker desktop client (src/main.py): the     *)
(* password helpers, the login / register / logout session, the shared     *)
(* database connection with its transaction status, and the handlers of    *)
(* the collections, search, social and recommendation tabs.                *)
(*                                                                         *)
(* Text is modelled as a sequence of one-character strings, bytes as a     *)
(* sequence of pairs of hex digits, a table as a set (or, for plays, a     *)
(* sequence) of records.                                                   *)
(***************************************************************************)
EXTENDS Integers, Sequences, FiniteSets, TLC

(***************************************************************************)
(* Bounds of the model.                                                    *)
(***************************************************************************)
\* longest stored password string drawn for check_password
MaxStrLen == 5
\* number of random salt bytes drawn by hash_password (os.urandom(16) in the code)
SaltBytes == 1
\* most database calls the server fails during one handler
MaxFailures == 1
\* most rows of the users table
MaxUsers == 2

\* rows of the collection table, and the last value of its sequence
MaxCollections == 2

MaxCollectionId == 2

\* rows of the plays table
MaxPlays == 1

\* games of the catalog the library is kept over
MaxGames == 1

\* games of the catalog the recommendations are computed over, and how many
\* of them user a has in a collection
RecGames == 3

MaxOwned == 2

(***************************************************************************)
(* Text helpers.                                                           *)
(***************************************************************************)
HexDigits == {"0", "a"}

\* the characters stored password strings are drawn from: hex digits, the
\* separator, ASCII whitespace and a character that is no hex digit
PwChars == HexDigits \cup {":", " ", "z"}

Passwords == {"pw1", "pw2"}

\* every sequence over S of length at most n
SeqsUpTo(S, n) == UNION {[1..k -> S] : k \in 0..n}

\* bytes.hex(): two lowercase hex digits per byte
RECURSIVE Hex(_)
Hex(b) == IF b = <<>> THEN <<>> ELSE <<b[1][1], b[1][2]>> \o Hex(Tail(b))

\* bytes.fromhex() from position i: ASCII whitespace is skipped before each
\* pair of digits, a pair is two adjacent hex digits, anything else is a
\* ValueError
RECURSIVE FromHexAt(_, _)
FromHexAt(s, i) ==
    IF i > Len(s) THEN [ok |-> TRUE, val |-> <<>>]
    ELSE IF s[i] = " " THEN FromHexAt(s, i + 1)
    ELSE IF i + 1 > Len(s) \/ s[i] \notin HexDigits \/ s[i + 1] \notin HexDigits
         THEN [ok |-> FALSE, val |-> <<>>]
    ELSE LET rest == FromHexAt(s, i + 2)
         IN  IF rest.ok THEN [ok |-> TRUE, val |-> <<(<<s[i], s[i + 1]>>)>> \o rest.val]
             ELSE rest

FromHex(s) == FromHexAt(s, 1)

\* str.split(':') unpacked into exactly two names: a ValueError unless the
\* string holds exactly one ':'
SplitColon(s) ==
    LET cols == {i \in 1..Len(s) : s[i] = ":"}
    IN  IF Cardinality(cols) # 1 THEN [ok |-> FALSE, salt_hex |-> <<>>, hash_hex |-> <<>>]
        ELSE LET i == CHOOSE j \in cols : TRUE
             IN  [ok |-> TRUE, salt_hex |-> SubSeq(s, 1, i - 1),
                  hash_hex |-> SubSeq(s, i + 1, Len(s))]

(***************************************************************************)
(* hashlib.pbkdf2_hmac('sha256', password, salt, 100000), abstracted to a  *)
(* one-byte digest that is injective in the password for every salt and    *)
(* depends on the salt: the high digit encodes the password, the low digit *)
(* the parity of the 'a' digits of the salt.                               *)
(***************************************************************************)
PwDigit(password) == IF password = "pw1" THEN "0" ELSE "a"

SaltMix(salt) ==
    LET h == Hex(salt)
        n == Cardinality({i \in 1..Len(h) : h[i] = "a"})
    IN  IF n % 2 = 0 THEN "0" ELSE "a"

pbkdf2_hmac(password, salt) == <<(<<PwDigit(password), SaltMix(salt)>>)>>

\* the values os.urandom(SaltBytes) can return
Salts == [1..SaltBytes -> HexDigits \X HexDigits]

\* hash_password with the salt os.urandom drew
hash_password(password, salt) ==
    Hex(salt) \o <<":">> \o Hex(pbkdf2_hmac(password, salt))

\* a Python bool, as a value that compares with the other outcomes
PyBool(b) == IF b THEN "True" ELSE "False"

\* check_password: the try block either raises ValueError (split not giving
\* two fields, or fromhex rejecting one) or gives salt and stored_hash; the
\* except clause turns the ValueError into False
check_password_no_salt(stored_password, provided_password) ==
    LET parts == SplitColon(stored_password)
        stored_hash == FromHex(parts.hash_hex)
    IN  IF ~parts.ok \/ ~FromHex(parts.salt_hex).ok \/ ~stored_hash.ok THEN "False"
        ELSE PyBool(pbkdf2_hmac(provided_password, <<>>) = stored_hash.val)

check_password(stored_password, provided_password) ==
    LET parts == SplitColon(stored_password)
        salt == FromHex(parts.salt_hex)
        stored_hash == FromHex(parts.hash_hex)
    IN  IF ~parts.ok \/ ~salt.ok \/ ~stored_hash.ok THEN "False"
        ELSE PyBool(pbkdf2_hmac(provided_password, salt.val) = stored_hash.val)

(***************************************************************************)
(* Text typed into entry fields.                                           *)
(***************************************************************************)
\* str.lower() on the letters of the model
Lower(c) == IF c = "A" THEN "a" ELSE IF c = "B" THEN "b" ELSE IF c = "N" THEN "n" ELSE c

LowerText(t) == [i \in 1..Len(t) |-> Lower(t[i])]

\* str.strip(): leading and trailing whitespace removed
RECURSIVE StripLeft(_)
StripLeft(t) == IF t # <<>> /\ t[1] = " " THEN StripLeft(Tail(t)) ELSE t

RECURSIVE StripRight(_)
StripRight(t) ==
    IF t # <<>> /\ t[Len(t)] = " " THEN StripRight(SubSeq(t, 1, Len(t) - 1)) ELSE t

Strip(t) == StripRight(StripLeft(t))

RECURSIVE Like(_, _)
\* text LIKE pattern over lower-cased text: % is any run, _ any one character
Like(text, pattern) ==
    IF pattern = <<>> THEN text = <<>>
    ELSE IF Head(pattern) = "%"
         THEN Like(text, Tail(pattern))
              \/ (text # <<>> /\ Like(Tail(text), pattern))
         ELSE /\ text # <<>>
              /\ Head(pattern) \in {"_", Head(text)}
              /\ Like(Tail(text), Tail(pattern))

\* text ILIKE pattern
ILike(text, pattern) == Like(LowerText(text), LowerText(pattern))

\* the code points of the characters of the model, as ord() gives them
CharRank ==
    [c \in {" ", "%", ",", "-", ".", "0", "1", "2", "3", "4", "5", "6", "7", "8",
            "9", "A", "B", "N", "_", "a", "b", "e", "n", "o", "x"} |->
        CASE c = " " -> 32 [] c = "%" -> 37 [] c = "," -> 44 [] c = "-" -> 45
          [] c = "." -> 46 [] c = "0" -> 48 [] c = "1" -> 49 [] c = "2" -> 50
          [] c = "3" -> 51 [] c = "4" -> 52 [] c = "5" -> 53 [] c = "6" -> 54
          [] c = "7" -> 55 [] c = "8" -> 56 [] c = "9" -> 57 [] c = "A" -> 65
          [] c = "B" -> 66 [] c = "N" -> 78 [] c = "_" -> 95 [] c = "a" -> 97
          [] c = "b" -> 98 [] c = "e" -> 101 [] c = "n" -> 110 [] c = "o" -> 111
          [] c = "x" -> 120]

RECURSIVE LexLess(_, _)
\* str < str: the first differing code point decides, a proper prefix is less
LexLess(t, u) ==
    IF u = <<>> THEN FALSE
    ELSE IF t = <<>> THEN TRUE
    ELSE IF Head(t) = Head(u) THEN LexLess(Tail(t), Tail(u))
    ELSE CharRank[Head(t)] < CharRank[Head(u)]

\* the decimal digits and their values
DigitValue ==
    [c \in {"0", "1", "2", "3", "4", "5", "6", "7", "8", "9"} |-> CharRank[c] - 48]

RECURSIVE Pow10(_)
Pow10(n) == IF n = 0 THEN 1 ELSE 10 * Pow10(n - 1)

RECURSIVE DigitsValue(_)
\* the number a run of digits denotes
DigitsValue(t) ==
    IF t = <<>> THEN 0 ELSE 10 * DigitsValue(SubSeq(t, 1, Len(t) - 1)) + DigitValue[t[Len(t)]]

\* a run of digits, single underscores allowed between two digits
DigitRun(t) ==
    /\ t # <<>>
    /\ \A i \in 1..Len(t) :
          \/ t[i] \in DOMAIN DigitValue
          \/ /\ t[i] = "_"
             /\ 1 < i /\ i < Len(t)
             /\ t[i - 1] \in DOMAIN DigitValue /\ t[i + 1] \in DOMAIN DigitValue

\* MIN(column) over a set of values
Least(S) == CHOOSE x \in S : \A y \in S : x <= y

\* the text without its underscores
Ungrouped(t) == SelectSeq(t, LAMBDA c : c # "_")

\* a leading sign taken off: the sign and the rest
Signed(t) ==
    IF t # <<>> /\ t[1] \in {"+", "-"}
    THEN [sign |-> IF t[1] = "-" THEN -1 ELSE 1, body |-> Tail(t)]
    ELSE [sign |-> 1, body |-> t]

\* int(text): surrounding whitespace dropped, an optional sign, then digits;
\* anything else raises ValueError (ok FALSE)
IntOf(t) ==
    IF DigitRun(t.body)
    THEN [ok |-> TRUE, val |-> t.sign * DigitsValue(Ungrouped(t.body))]
    ELSE [ok |-> FALSE, val |-> 0]

ParseInt(text) == IntOf(Signed(Strip(text)))

\* the fraction <<numerator, denominator>> of a sign, the digits before the
\* point and the digits after it
Fraction(sign, whole, frac) ==
    [ok |-> TRUE,
     val |-> <<sign * (DigitsValue(whole) * Pow10(Len(frac)) + DigitsValue(frac)),
               Pow10(Len(frac))>>]

\* the text before and after a point, a run of digits or nothing each and
\* not nothing both
FloatParts(sign, whole, frac) ==
    IF /\ whole # <<>> \/ frac # <<>>
       /\ whole = <<>> \/ DigitRun(whole)
       /\ frac = <<>> \/ DigitRun(frac)
    THEN Fraction(sign, Ungrouped(whole), Ungrouped(frac))
    ELSE [ok |-> FALSE, val |-> <<0, 1>>]

\* the text split at its point, when it has at most one
FloatAt(sign, body, dots) ==
    IF dots = {} THEN FloatParts(sign, body, <<>>)
    ELSE IF Cardinality(dots) = 1
    THEN FloatParts(sign, SubSeq(body, 1, Least(dots) - 1),
                    SubSeq(body, Least(dots) + 1, Len(body)))
    ELSE [ok |-> FALSE, val |-> <<0, 1>>]

\* the texts besides the decimal forms that float() takes, in any case and
\* after an optional sign
NanText == <<"n", "a", "n">>

InfTexts == {<<"i", "n", "f">>, <<"i", "n", "f", "i", "n", "i", "t", "y">>}

\* nan as <<0, 0>>, inf as <<1, 0>> and -inf as <<-1, 0>>: a comparison
\* x <= nan or x <= inf by cross-multiplication is true of every number x,
\* as the server orders them, and x <= -inf of none
SpecialFloat(sign, body) ==
    [ok |-> TRUE, val |-> IF body = NanText THEN <<0, 0>> ELSE <<sign, 0>>]

FloatOf(t) ==
    IF LowerText(t.body) \in InfTexts \cup {NanText}
    THEN SpecialFloat(t.sign, LowerText(t.body))
    ELSE FloatAt(t.sign, t.body, {i \in 1..Len(t.body) : t.body[i] = "."})

\* float(text) over the decimal forms [sign] digits [. digits] and
\* [sign] . digits, as the fraction <<numerator, denominator>>, and over
\* nan, inf and infinity
ParseFloat(text) == FloatOf(Signed(Strip(text)))

\* str(d) of one digit
DigitChar(d) == CHOOSE c \in DOMAIN DigitValue : DigitValue[c] = d

RECURSIVE Decimal(_)
\* str(n) of a natural number
Decimal(n) == IF n < 10 THEN <<DigitChar(n)>> ELSE Append(Decimal(n \div 10), DigitChar(n % 10))

\* f"{n:02}": at least two digits
Pad2(n) == IF n < 10 THEN <<"0", DigitChar(n)>> ELSE Decimal(n)

\* format_duration(minutes) of a number of minutes
format_duration(minutes) == Pad2(minutes \div 60) \o <<":">> \o Pad2(minutes % 60)

\* re.match(r"[^@]+@[^@]+\.[^@]+", email): anchored at the start only
EmailFormatOk(email) ==
    \E a \in 2..Len(email) :
        /\ email[a] = "@"
        /\ \A i \in 1..(a - 1) : email[i] # "@"
        /\ \E d \in (a + 2)..(Len(email) - 1) :
              /\ email[d] = "."
              /\ \A i \in (a + 1)..(d - 1) : email[i] # "@"
              /\ email[d + 1] # "@"

(***************************************************************************)
(* State.                                                                  *)
(***************************************************************************)
VARIABLES
    \* one use of the password helpers: the stored string, the password it
    \* was hashed from ("none" for a stored string hash_password did not
    \* make), the password provided and what check_password returned
    pw_stored, pw_plain, pw_given, pw_result,
    \* the database tables the handlers read and write (committed rows)
    users, collection, collectiongame, plays, purchases, follows,
    \* the sequence collection_collectionid_seq (not transactional)
    collection_seq,
    \* the catalog tables and userplatform, which no handler writes
    videogame, gamegenre, gamedeveloper, gamepublisher, gameplatform, userplatform,
    \* the names of the catalog (videogame.title and the name columns of
    \* platform, company and genres, by id) and, for each row of gameplatform,
    \* its release year and price
    names, release,
    \* the order in which the server returns rows that ORDER BY leaves tied
    tie_order,
    \* the shared connection's transaction status: "idle", "intrans", "inerror"
    tx,
    \* App.current_user_id and the frame App.show_frame raised last
    current_user_id, raised,
    \* the selected tab of the main notebook and of the popular sub-notebook
    tab, subtab,
    \* the rows of the Treeviews and the profile labels
    coll_tree, search_results, search_tree, following_tree,
    recommendations_tree, profile_labels,
    \* the entries of the search tab, the statement and the parameters that
    \* search_games last gave to execute, the order of the rows of its tree
    filters, search_query, search_order,
    \* for each heading of the search tree the reverse flag its next click
    \* passes to sort_column
    heading_reverse,
    \* the sort mode selected on the profile tab and the rows of its top-10 tree
    top_sort_var, top_games_tree,
    \* the rows of the "Top 20 - Followed Users" tree
    followed_tree,
    \* the modal CollectionDetailWindow: its collection_id (None when no
    \* window is open) and the rows of its tree
    detail_collection_id, detail_tree,
    \* the user load_recommendations last ran for, the favourite genres and
    \* developers its query ranked first, and the path that gave the rows
    rec_user, rec_genres, rec_developers, rec_path,
    \* what the handler that ran last did: the message boxes it showed, whether
    \* a database call of it raised, and the password typed at the last login
    msgs, dberr, login_password,
    \* the process: the Tk root window ("none" before App() is constructed,
    \* "built", "destroyed"), App.server ("None", "new", "started", "stopped"),
    \* App.conn ("None", "open", "closed"), and the calls made on the tunnel
    \* and the connection, in order
    window, server, conn, calls

proc_vars == <<window, server, conn, calls>>

pw_vars == <<pw_stored, pw_plain, pw_given, pw_result>>

db_vars == <<users, collection, collectiongame, plays, purchases, follows, collection_seq>>

catalog_vars == <<videogame, gamegenre, gamedeveloper, gamepublisher, gameplatform,
                  userplatform, names, release, tie_order>>

ui_vars == <<tab, subtab, coll_tree, search_results, search_tree, following_tree,
             recommendations_tree, profile_labels, detail_collection_id, detail_tree,
             rec_user, rec_genres, rec_developers, rec_path, filters, search_query,
             search_order, heading_reverse, top_sort_var, top_games_tree, followed_tree>>

app_vars == <<db_vars, tx, current_user_id, raised, ui_vars, msgs, dberr, login_password>>

vars == <<pw_vars, app_vars, catalog_vars, proc_vars>>

\* self.current_user_id = None
None == 0

\* the password helpers not in use
PwIdle ==
    /\ pw_stored = <<>>
    /\ pw_plain = "none"
    /\ pw_given = "none"
    /\ pw_result = "none"

(***************************************************************************)
(* A handler is a function of the application state: the record below is   *)
(* threaded through the statements of a handler and installed at its end.  *)
(***************************************************************************)
Cur ==
    [users |-> users, collection |-> collection, collectiongame |-> collectiongame,
     plays |-> plays, purchases |-> purchases, follows |-> follows,
     collection_seq |-> collection_seq,
     videogame |-> videogame, gamegenre |-> gamegenre, gamedeveloper |-> gamedeveloper,
     gamepublisher |-> gamepublisher, gameplatform |-> gameplatform,
     userplatform |-> userplatform, names |-> names, release |-> release,
     filters |-> filters, search_query |-> search_query,
     search_order |-> search_order, heading_reverse |-> heading_reverse,
     tie_order |-> tie_order, top_sort_var |-> top_sort_var,
     top_games_tree |-> top_games_tree, followed_tree |-> followed_tree,
     tab |-> tab, subtab |-> subtab,
     detail_collection_id |-> detail_collection_id, detail_tree |-> detail_tree,
     rec_user |-> rec_user, rec_genres |-> {}, rec_developers |-> {},
     rec_path |-> "none",
     tx |-> tx, current_user_id |-> current_user_id, raised |-> raised,
     coll_tree |-> coll_tree, search_results |-> search_results,
     search_tree |-> search_tree, following_tree |-> following_tree,
     recommendations_tree |-> recommendations_tree, profile_labels |-> profile_labels,
     msgs |-> {}, dberr |-> FALSE, login_password |-> login_password]

\* the application variables take the values of result
Put(result) ==
    \E s \in {result} :
        /\ users' = s.users
        /\ collection' = s.collection
        /\ collectiongame' = s.collectiongame
        /\ plays' = s.plays
        /\ purchases' = s.purchases
        /\ follows' = s.follows
        /\ collection_seq' = s.collection_seq
        /\ tab' = s.tab
        /\ subtab' = s.subtab
        /\ detail_collection_id' = s.detail_collection_id
        /\ detail_tree' = s.detail_tree
        /\ rec_user' = s.rec_user
        /\ rec_genres' = s.rec_genres
        /\ rec_developers' = s.rec_developers
        /\ rec_path' = s.rec_path
        /\ tx' = s.tx
        /\ current_user_id' = s.current_user_id
        /\ raised' = s.raised
        /\ coll_tree' = s.coll_tree
        /\ search_results' = s.search_results
        /\ search_order' = s.search_order
        /\ filters' = s.filters
        /\ search_query' = s.search_query
        /\ heading_reverse' = s.heading_reverse
        /\ top_sort_var' = s.top_sort_var
        /\ top_games_tree' = s.top_games_tree
        /\ followed_tree' = s.followed_tree
        /\ search_tree' = s.search_tree
        /\ following_tree' = s.following_tree
        /\ recommendations_tree' = s.recommendations_tree
        /\ profile_labels' = s.profile_labels
        /\ msgs' = s.msgs
        /\ dberr' = s.dberr
        /\ login_password' = s.login_password
        /\ UNCHANGED <<pw_vars, catalog_vars>>

\* the handler's result is computed once and becomes the next state; the
\* handlers of the frames leave the tunnel and the connection as they are
Install(result) ==
    /\ Put(result)
    /\ UNCHANGED proc_vars

\* the handler leaves one of the states of results: one for each way its
\* database calls can fail
Leaves(results) == \E result \in results : Install(result)

(***************************************************************************)
(* The connection.  F is the set of database calls (by label) that the     *)
(* server fails in this run of a handler.  A call also fails when the      *)
(* transaction is already aborted (InFailedSqlTransaction).                *)
(***************************************************************************)
\* curs.execute(...) returns normally
ExecOk(s, label, F) == s.tx # "inerror" /\ label \notin F

\* the connection after curs.execute(...)
Exec(s, label, F) ==
    IF ExecOk(s, label, F) THEN [s EXCEPT !.tx = "intrans"]
    ELSE [s EXCEPT !.tx = "inerror", !.dberr = TRUE]

\* conn.commit() returns normally
CommitOk(s, label, F) == s.tx # "inerror" /\ label \notin F

\* the connection after conn.commit()
Commit(s, label, F) ==
    IF CommitOk(s, label, F) THEN [s EXCEPT !.tx = "idle"]
    ELSE [s EXCEPT !.tx = "inerror", !.dberr = TRUE]

\* conn.rollback()
NoRollback(s) == s

Rollback(s) == [s EXCEPT !.tx = "idle"]

\* messagebox.showerror / showwarning / showinfo
Show(s, kind, text) == [s EXCEPT !.msgs = @ \cup {<<kind, text>>}]

\* the sets of failing calls a handler whose calls are L is run with
FailSets(L) == {F \in SUBSET L : Cardinality(F) <= MaxFailures}

(***************************************************************************)
(* Queries shared by the handlers.                                         *)
(***************************************************************************)
\* a column that may be missing from the function that holds it: the text
\* of row k, the empty text where the catalog gives none
NameOf(f, k) == IF k \in DOMAIN f THEN f[k] ELSE <<>>

\* the elements of S in increasing order of the strict total order Less
SortSet(S, Less(_, _)) ==
    [i \in 1..Cardinality(S) |->
        CHOOSE x \in S : Cardinality({y \in S : Less(y, x)}) = i - 1]

Min(a, b) == IF a <= b THEN a ELSE b

\* LIMIT n
Limit(rows, n) == SubSeq(rows, 1, Min(n, Len(rows)))

RECURSIVE SumDurations(_, _)
\* SUM(duration) over the rows of plays at the indices I
SumDurations(p, I) ==
    IF I = {} THEN 0
    ELSE LET i == CHOOSE j \in I : TRUE
         IN  p[i].duration + SumDurations(p, I \ {i})

\* the rows of a load_collections that joins plays on the game alone
CollectionRowsOfAnyPlayer(s, uid) ==
    {[collectionid |-> c.collectionid,
      name |-> c.name,
      gamecount |-> Cardinality({cg \in s.collectiongame : cg[1] = c.collectionid}),
      playtime_str |->
          format_duration(
              SumDurations(s.plays,
                  {i \in 1..Len(s.plays) :
                      <<c.collectionid, s.plays[i].gameid>> \in s.collectiongame}))]
     : c \in {c \in s.collection : c.userid = uid}}

\* the rows load_collections selects for a user: per collection the number
\* of distinct games and the durations of the owner's plays of its games
\* (collection LEFT JOIN collectiongame LEFT JOIN plays, grouped)
CollectionRows(s, uid) ==
    {[collectionid |-> c.collectionid,
      name |-> c.name,
      gamecount |-> Cardinality({cg \in s.collectiongame : cg[1] = c.collectionid}),
      playtime_str |->
          format_duration(
              SumDurations(s.plays,
                  {i \in 1..Len(s.plays) :
                      /\ s.plays[i].userid = c.userid
                      /\ <<c.collectionid, s.plays[i].gameid>> \in s.collectiongame}))]
     : c \in {c \in s.collection : c.userid = uid}}

\* CollectionsFrame.load_collections
load_collections(s, F) ==
    LET s1 == [s EXCEPT !.coll_tree = {}]
        e == Exec(s1, "load_collections.select", F)
    IN  IF s.current_user_id = None THEN s1
        ELSE IF ExecOk(s1, "load_collections.select", F)
             THEN [e EXCEPT !.coll_tree = CollectionRows(s, s.current_user_id)]
             ELSE Rollback(Show(e, "error", "Failed to load collections"))

\* SocialFrame.load_following
load_following(s, F) ==
    LET s1 == [s EXCEPT !.following_tree = {}]
        e == Exec(s1, "load_following.select", F)
    IN  IF s.current_user_id = None THEN s1
        ELSE IF ExecOk(s1, "load_following.select", F)
             THEN [e EXCEPT !.following_tree =
                       {f[2] : f \in {f \in s.follows : f[1] = s.current_user_id}}]
             ELSE Rollback(Show(e, "error", "Failed to load following list"))

\* LIMIT 10 of the top games queries
TopGamesLimit == 10

\* the user's rating of game g, None without a purchases row
StarRating(s, uid, g) ==
    LET rows == {pu \in s.purchases : pu.userid = uid /\ pu.gameid = g}
    IN  IF rows = {} THEN None ELSE (CHOOSE pu \in rows : TRUE).starrating

\* SUM(pl.duration) over the user's sessions at the games G
PlayedMinutes(s, uid, G) ==
    SumDurations(s.plays, {i \in 1..Len(s.plays) :
                              s.plays[i].userid = uid /\ s.plays[i].gameid \in G})

\* the games whose rows the FROM and WHERE clauses of a mode keep: rated by
\* the user; played by the user; rated or played
TopCandidates(s, uid, sort_method) ==
    LET rated == {g \in s.videogame : StarRating(s, uid, g) # None}
        played == {g \in s.videogame : \E i \in 1..Len(s.plays) :
                                          s.plays[i].userid = uid /\ s.plays[i].gameid = g}
    IN  IF sort_method = "rating" THEN rated
        ELSE IF sort_method = "playtime" THEN played
        ELSE rated \cup played

\* GROUP BY g.title, pu.starrating: one row for the games of a title that the
\* user rated alike, with the playtime of them all and, in the combined
\* mode, the score; HAVING keeps the groups rated or played
TopGroups(s, uid, sort_method) ==
    LET G == TopCandidates(s, uid, sort_method)
        key(g) == <<NameOf(s.names.title, g), StarRating(s, uid, g)>>
        row(k) ==
            LET total == PlayedMinutes(s, uid, {g \in G : key(g) = k})
            IN  [title |-> k[1], starrating |-> k[2], totalplaytime |-> total,
                 score |-> (IF k[2] = None THEN 0 ELSE k[2]) * total]
    IN  {r \in {row(key(g)) : g \in G} :
            sort_method \in {"rating", "playtime"} \/ r.starrating # None \/ r.totalplaytime > 0}

\* the rows in the order of their titles, whatever the mode
TopBeforeByTitle(sort_method, tie, r, q) ==
    \/ LexLess(r.title, q.title)
    \/ r.title = q.title /\ r.starrating < q.starrating

\* ORDER BY of the mode, rows it leaves tied in the order of the server
TopBefore(sort_method, tie, r, q) ==
    LET tied == IF r.title # q.title
                THEN (IF tie = "asc" THEN LexLess(r.title, q.title)
                      ELSE LexLess(q.title, r.title))
                ELSE (IF tie = "asc" THEN r.starrating < q.starrating
                      ELSE q.starrating < r.starrating)
    IN  IF sort_method = "rating"
        THEN \/ r.starrating > q.starrating
             \/ r.starrating = q.starrating /\ r.totalplaytime > q.totalplaytime
             \/ r.starrating = q.starrating /\ r.totalplaytime = q.totalplaytime /\ tied
        ELSE IF sort_method = "playtime"
        THEN \/ r.totalplaytime > q.totalplaytime
             \/ r.totalplaytime = q.totalplaytime /\ tied
        ELSE \/ r.score > q.score
             \/ r.score = q.score /\ tied

\* the values of the top-10 tree for a fetched row
TopValues(sort_method, row) ==
    [title |-> row.title,
     starrating |-> row.starrating,
     playtime_str |-> format_duration(row.totalplaytime),
     score_str |-> IF sort_method = "combined" THEN Decimal(row.score)
                   ELSE <<"N", "/", "A">>]

\* the rows the query of the mode returns
TopRows(s, uid, sort_method) ==
    LET fetched == Limit(SortSet(TopGroups(s, uid, sort_method),
                                 LAMBDA r, q : TopBefore(sort_method, s.tie_order, r, q)),
                         TopGamesLimit)
    IN  [i \in DOMAIN fetched |-> TopValues(sort_method, fetched[i])]

\* ProfileFrame.load_top_games
load_top_games(s, F) ==
    LET s1 == [s EXCEPT !.top_games_tree = <<>>]
        e == Exec(s1, "load_top_games.select", F)
    IN  IF s.current_user_id = None THEN s1
        ELSE IF ExecOk(s1, "load_top_games.select", F)
             THEN [e EXCEPT !.top_games_tree =
                       TopRows(s, s.current_user_id, s.top_sort_var)]
             ELSE Rollback(Show(e, "error", "Failed to load top games"))

\* a load_profile that counts the edges leaving the user as followers and
\* those pointing to the user as following
load_profile_reversed(s, F) ==
    LET uid == s.current_user_id
        fail(x) == Rollback(Show(x, "error", "Failed to load profile"))
        e1 == Exec(s, "load_profile.collections", F)
        s1 == [e1 EXCEPT !.profile_labels.collections =
                   Cardinality({c \in s.collection : c.userid = uid})]
        e2 == Exec(s1, "load_profile.followers", F)
        s2 == [e2 EXCEPT !.profile_labels.followers =
                   Cardinality({f \in s.follows : f[1] = uid})]
        e3 == Exec(s2, "load_profile.following", F)
        s3 == [e3 EXCEPT !.profile_labels.following =
                   Cardinality({f \in s.follows : f[2] = uid})]
    IN  IF uid = None THEN s
        ELSE IF ~ExecOk(s, "load_profile.collections", F) THEN fail(e1)
        ELSE IF ~ExecOk(s1, "load_profile.followers", F) THEN fail(e2)
        ELSE IF ~ExecOk(s2, "load_profile.following", F) THEN fail(e3)
        ELSE load_top_games(s3, F)

\* ProfileFrame.load_profile: each label is set as soon as its count is read
load_profile(s, F) ==
    LET uid == s.current_user_id
        fail(x) == Rollback(Show(x, "error", "Failed to load profile"))
        e1 == Exec(s, "load_profile.collections", F)
        s1 == [e1 EXCEPT !.profile_labels.collections =
                   Cardinality({c \in s.collection : c.userid = uid})]
        e2 == Exec(s1, "load_profile.followers", F)
        s2 == [e2 EXCEPT !.profile_labels.followers =
                   Cardinality({f \in s.follows : f[2] = uid})]
        e3 == Exec(s2, "load_profile.following", F)
        s3 == [e3 EXCEPT !.profile_labels.following =
                   Cardinality({f \in s.follows : f[1] = uid})]
    IN  IF uid = None THEN s
        ELSE IF ~ExecOk(s, "load_profile.collections", F) THEN fail(e1)
        ELSE IF ~ExecOk(s1, "load_profile.followers", F) THEN fail(e2)
        ELSE IF ~ExecOk(s2, "load_profile.following", F) THEN fail(e3)
        ELSE load_top_games(s3, F)

\* PopularFrame.load_popular_90_days (the rows of its tree are not kept)
load_popular_90_days(s, F) ==
    LET e == Exec(s, "load_popular_90_days.select", F)
    IN  IF ExecOk(s, "load_popular_90_days.select", F) THEN e
        ELSE Rollback(Show(e, "error", "Failed to load popular games"))

\* LIMIT 20 of the followed-users query
FollowedLimit == 20

\* SELECT followedid FROM follows WHERE followerid = uid
FollowedIds(s, uid) == {f[2] : f \in {f \in s.follows : f[1] = uid}}

\* the rows of plays JOIN videogame that WHERE pl.userid IN (...) keeps
FollowedSessions(s, uid) ==
    {i \in 1..Len(s.plays) :
        /\ s.plays[i].gameid \in s.videogame
        /\ s.plays[i].userid \in FollowedIds(s, uid)}

\* GROUP BY g.title with COUNT(*), SUM(pl.duration), COUNT(DISTINCT pl.userid)
FollowedGroups(s, uid) ==
    LET I == FollowedSessions(s, uid)
        titleof(i) == NameOf(s.names.title, s.plays[i].gameid)
        at(title) == {i \in I : titleof(i) = title}
    IN  {[title |-> title,
          playcount |-> Cardinality(at(title)),
          totalplaytime |-> SumDurations(s.plays, at(title)),
          uniqueplayers |-> Cardinality({s.plays[i].userid : i \in at(title)})]
         : title \in {titleof(i) : i \in I}}

\* ORDER BY playcount DESC, totalplaytime DESC, rows it leaves tied in the
\* order of the server
FollowedBefore(tie, r, q) ==
    \/ r.playcount > q.playcount
    \/ r.playcount = q.playcount /\ r.totalplaytime > q.totalplaytime
    \/ /\ r.playcount = q.playcount
       /\ r.totalplaytime = q.totalplaytime
       /\ IF tie = "asc" THEN LexLess(r.title, q.title) ELSE LexLess(q.title, r.title)

\* the values of the followed tree for the fetched rows, idx from 1
FollowedRows(s, uid) ==
    LET fetched == Limit(SortSet(FollowedGroups(s, uid),
                                 LAMBDA r, q : FollowedBefore(s.tie_order, r, q)),
                         FollowedLimit)
    IN  [idx \in DOMAIN fetched |->
            [rank |-> idx, title |-> fetched[idx].title,
             plays |-> fetched[idx].playcount,
             playtime_str |-> format_duration(fetched[idx].totalplaytime),
             players |-> fetched[idx].uniqueplayers]]

\* PopularFrame.load_popular_followed
load_popular_followed(s, F) ==
    LET s1 == [s EXCEPT !.followed_tree = <<>>]
        e == Exec(s1, "load_popular_followed.select", F)
    IN  IF s.current_user_id = None THEN s1
        ELSE IF ExecOk(s1, "load_popular_followed.select", F)
             THEN [e EXCEPT !.followed_tree = FollowedRows(s, s.current_user_id)]
             ELSE Rollback(Show(e, "error", "Failed to load followed games"))

\* PopularFrame.load_new_releases (the rows of its tree are not kept)
load_new_releases(s, F) ==
    LET e == Exec(s, "load_new_releases.select", F)
    IN  IF ExecOk(s, "load_new_releases.select", F) THEN e
        ELSE Rollback(Show(e, "error", "Failed to load new releases"))

\* PopularFrame.load_data: recommendations wait for their sub-tab
load_data(s, F) == load_new_releases(load_popular_followed(load_popular_90_days(s, F), F), F)

\* MainAppFrame.refresh_data: a failing SELECT of the first name is printed,
\* not rolled back; the four loads follow in either case
refresh_data(s, F) ==
    LET e == Exec(s, "refresh_data.select", F)
    IN  IF s.current_user_id = None THEN s
        ELSE load_data(load_profile(load_following(load_collections(e, F), F), F), F)

\* App.show_frame
show_frame(s, page_name, F) ==
    LET t == IF page_name = "MainAppFrame" THEN refresh_data(s, F) ELSE s
    IN  [t EXCEPT !.raised = page_name]

(***************************************************************************)
(* Session: login, register, logout, tabs.                                 *)
(***************************************************************************)
\* the database calls refresh_data and the loads it runs can make
RefreshLabels ==
    {"refresh_data.select", "load_collections.select", "load_following.select",
     "load_profile.collections", "load_profile.followers", "load_profile.following",
     "load_top_games.select", "load_popular_90_days.select",
     "load_popular_followed.select", "load_new_releases.select"}

LoginLabels == {"login.select", "login.update", "login.commit"} \cup RefreshLabels

\* login without the password check
login_unchecked(s, username, password, F) ==
    LET rows == {u \in s.users : u.username = username}
        user_data == CHOOSE u \in rows : TRUE
        s1 == [s EXCEPT !.login_password = password]
    IN  IF rows = {} THEN Show(s1, "error", "Invalid username or password.")
        ELSE show_frame([s1 EXCEPT !.current_user_id = user_data.userid],
                        "MainAppFrame", F)

\* login with a message of its own for a password that does not verify
login_telling(s, username, password, F) ==
    LET s1 == [s EXCEPT !.login_password = password]
        rows == {u \in s.users : u.username = username}
        user_data == CHOOSE u \in rows : TRUE
        s3 == [s1 EXCEPT !.users = (@ \ {user_data}) \cup
                              {[user_data EXCEPT !.lastaccessdate = "set"]},
                         !.current_user_id = user_data.userid]
    IN  IF username = <<>> \/ password = ""
        THEN Show(s1, "error", "Please enter both username and password.")
        ELSE IF rows = {} THEN Show(s1, "error", "Invalid username or password.")
        ELSE IF check_password(user_data.password, password) # "True"
             THEN Show(s1, "error", "Invalid password.")
        ELSE show_frame(Show(s3, "info", "Welcome"), "MainAppFrame", F)

\* LoginFrame.login
login(s, username, password, F) ==
    LET except(x) == Rollback(Show(x, "error", "Database Error: An error occurred"))
        s1 == [s EXCEPT !.login_password = password]
        e1 == Exec(s1, "login.select", F)
        rows == {u \in s.users : u.username = username}
        user_data == CHOOSE u \in rows : TRUE
        e2 == Exec(e1, "login.update", F)
        e3 == Commit(e2, "login.commit", F)
        s3 == [e3 EXCEPT !.users = (@ \ {user_data}) \cup
                              {[user_data EXCEPT !.lastaccessdate = "set"]},
                         !.current_user_id = user_data.userid]
    IN  IF username = <<>> \/ password = ""
        THEN Show(s1, "error", "Please enter both username and password.")
        ELSE IF ~ExecOk(s1, "login.select", F) THEN except(e1)
        ELSE IF rows = {} THEN Show(e1, "error", "Invalid username or password.")
        ELSE IF check_password(user_data.password, password) # "True"
             THEN Show(e1, "error", "Invalid username or password.")
        ELSE IF ~ExecOk(e1, "login.update", F) THEN except(e2)
        ELSE IF ~CommitOk(e2, "login.commit", F) THEN except(e3)
        ELSE show_frame(Show(s3, "info", "Welcome"), "MainAppFrame", F)

\* MainAppFrame.logout
logout(s) == show_frame([s EXCEPT !.current_user_id = None], "LoginFrame", {})

\* MainAppFrame.on_tab_changed
on_tab_changed(s, tab_text, F) ==
    IF tab_text = "My Profile" THEN load_profile(s, F)
    ELSE IF tab_text = "Popular & Recommended" THEN load_data(s, F)
    ELSE IF tab_text = "Social" THEN load_following(s, F)
    ELSE s

Tabs == {"My Collections", "Search Games", "Social", "My Profile", "Popular & Recommended"}

RegisterLabels ==
    {"register.select", "register.setval", "register.insert", "register.commit"}

\* the users rows the duplicate check of register selects
ExistingUsers(s, email, username) ==
    {u \in s.users : u.username = username \/ u.email = email}

\* what fetchone() returns when no row was selected
NoUserRow ==
    [userid |-> None, username |-> <<>>, email |-> <<>>, password |-> <<>>,
     lastaccessdate |-> "NULL"]

\* the userid the sequence gives after setval to MAX(userid)
NextUserId(s) ==
    IF s.users = {} THEN 1
    ELSE (CHOOSE m \in {u.userid : u \in s.users} :
              \A u \in s.users : u.userid <= m) + 1

\* a register without the duplicate check
register_unchecked(s, fname, lname, email_typed, username_typed, password, salt, existing_user, F) ==
    LET email == LowerText(Strip(email_typed))
        username == LowerText(Strip(username_typed))
        row == [userid |-> NextUserId(s), username |-> username, email |-> email,
                password |-> hash_password(password, salt), lastaccessdate |-> "NULL"]
    IN  IF fname = <<>> \/ lname = <<>> \/ email = <<>> \/ username = <<>> \/ password = ""
        THEN Show(s, "error", "Please fill in all fields.")
        ELSE IF ~EmailFormatOk(email) THEN Show(s, "error", "Invalid email format.")
        ELSE show_frame(Show([s EXCEPT !.users = @ \cup {row}], "info",
                             "Account created successfully! Please log in."),
                        "LoginFrame", F)

\* RegisterFrame.register; salt is what os.urandom drew and existing_user the
\* row fetchone() returned when the duplicate check selected any
register(s, fname, lname, email_typed, username_typed, password, salt, existing_user, F) ==
    LET except(x) == Show(Rollback(x), "error", "Database Error: An unexpected error occurred")
        email == LowerText(Strip(email_typed))
        username == LowerText(Strip(username_typed))
        hashed_password == hash_password(password, salt)
        e1 == Exec(s, "register.select", F)
        e2 == Exec(e1, "register.setval", F)
        e3 == Exec(e2, "register.insert", F)
        e4 == Commit(e3, "register.commit", F)
        row == [userid |-> NextUserId(s), username |-> username, email |-> email,
                password |-> hashed_password, lastaccessdate |-> "NULL"]
        s4 == [e4 EXCEPT !.users = @ \cup {row}]
    IN  IF fname = <<>> \/ lname = <<>> \/ email = <<>> \/ username = <<>> \/ password = ""
        THEN Show(s, "error", "Please fill in all fields.")
        ELSE IF ~EmailFormatOk(email) THEN Show(s, "error", "Invalid email format.")
        ELSE IF ~ExecOk(s, "register.select", F) THEN except(e1)
        ELSE IF ExistingUsers(s, email, username) # {}
             THEN IF existing_user.username = username
                  THEN Show(e1, "error", "Username already exists.")
                  ELSE IF existing_user.email = email
                       THEN Show(e1, "error", "Email already exists.")
                       ELSE e1
        ELSE IF ~ExecOk(e1, "register.setval", F) THEN except(e2)
        ELSE IF ~ExecOk(e2, "register.insert", F) THEN except(e3)
        ELSE IF ~CommitOk(e3, "register.commit", F) THEN except(e4)
        ELSE show_frame(Show(s4, "info", "Account created successfully! Please log in."),
                        "LoginFrame", F)

\* text typed into the username fields, the email fields and the name fields
TypedUsernames == {<<>>, <<"a">>, <<"A">>, <<" ", "a">>, <<"b">>}

TypedEmails ==
    {<<>>, <<"a", "b">>, <<"a", "@", "b", ".", "c">>, <<"A", "@", "b", ".", "c">>,
     <<"b", "@", "b", ".", "c">>}

TypedNames == {<<>>, <<"a">>}

TypedPasswords == {""} \cup Passwords

\* two of the salts os.urandom can draw
Salt0 == [i \in 1..SaltBytes |-> <<"0", "0">>]

Salt1 == [i \in 1..SaltBytes |-> <<"0", "a">>]

(***************************************************************************)
(* Actions of the session.  A button acts only on the raised frame.        *)
(***************************************************************************)
Login(username, password, Fs) ==
    /\ raised = "LoginFrame"
    /\ Leaves({login(Cur, username, password, F) : F \in Fs})

Logout ==
    /\ raised = "MainAppFrame"
    /\ detail_collection_id = None
    /\ Install(logout(Cur))

\* the "Create Account" button of the login frame
ShowRegister ==
    /\ raised = "LoginFrame"
    /\ Install(show_frame(Cur, "RegisterFrame", {}))

\* the "Back to Login" button of the register frame
BackToLogin ==
    /\ raised = "RegisterFrame"
    /\ Install(show_frame(Cur, "LoginFrame", {}))

\* register stops at its field checks: no database call, no salt used
RegisterRejected(fname, lname, email_typed, username_typed, password) ==
    /\ raised = "RegisterFrame"
    /\ \/ <<>> \in {fname, lname, LowerText(Strip(email_typed)),
                     LowerText(Strip(username_typed))}
       \/ password = ""
       \/ ~EmailFormatOk(LowerText(Strip(email_typed)))
    /\ Install(register(Cur, fname, lname, email_typed, username_typed, password,
                        Salt0, NoUserRow, {}))

\* register reaches the database
Register(fname, lname, email_typed, username_typed, password, salt, Fs) ==
    /\ raised = "RegisterFrame"
    /\ <<>> \notin {fname, lname, LowerText(Strip(email_typed)),
                     LowerText(Strip(username_typed))}
    /\ password # ""
    /\ EmailFormatOk(LowerText(Strip(email_typed)))
    /\ LET existing == ExistingUsers(Cur, LowerText(Strip(email_typed)),
                                     LowerText(Strip(username_typed)))
       IN  Leaves({register(Cur, fname, lname, email_typed, username_typed,
                         password, salt, existing_user, F) :
                    existing_user \in (IF existing = {} THEN {NoUserRow} ELSE existing),
                    F \in Fs})
    /\ Cardinality(users') <= MaxUsers

\* the main frame is raised and no modal window holds the grab
MainActive == raised = "MainAppFrame" /\ detail_collection_id = None

\* the user selects another tab of the notebook: <<NotebookTabChanged>>
OnTabChanged(tab_text, Fs) ==
    /\ MainActive
    /\ tab_text # tab
    /\ Leaves({on_tab_changed([Cur EXCEPT !.tab = tab_text], tab_text, F) : F \in Fs})

(***************************************************************************)
(* The "My Collections" tab and the collection detail window.              *)
(***************************************************************************)
\* what tree.focus() gives when no row is selected
NoRow == [collectionid |-> None, name |-> <<>>, gamecount |-> 0, playtime_str |-> <<>>]

CreateLabels ==
    {"create_collection.setval", "create_collection.insert", "create_collection.commit",
     "load_collections.select", "load_profile.collections", "load_profile.followers",
     "load_profile.following", "load_top_games.select"}

\* the largest collectionid, the sequence's own value for an empty table
\* (setval to a NULL maximum changes nothing)
SetvalCollection(s) ==
    IF s.collection = {} THEN s.collection_seq
    ELSE CHOOSE m \in {c.collectionid : c \in s.collection} :
             \A c \in s.collection : c.collectionid <= m

\* the unique constraint of collection on (userid, name)
CollectionNameTaken(s, uid, name, except_id) ==
    \E c \in s.collection :
        c.userid = uid /\ c.name = name /\ c.collectionid # except_id

\* create_collection that inserts without the database's unique constraint
create_collection_unconstrained(s, new_name, F) ==
    LET row == [collectionid |-> SetvalCollection(s) + 1,
                userid |-> s.current_user_id, name |-> new_name]
    IN  IF new_name = <<>> THEN s
        ELSE load_profile(load_collections(
                 [s EXCEPT !.collection = @ \cup {row},
                           !.collection_seq = SetvalCollection(s) + 1], F), F)

\* CollectionsFrame.create_collection
create_collection(s, new_name, F) ==
    LET except(x, dup) ==
            Show(Rollback(x), "error",
                 IF dup THEN "A collection with this name already exists."
                 ELSE "Database Error: Failed to create collection")
        uid == s.current_user_id
        e1 == Exec(s, "create_collection.setval", F)
        s1 == [e1 EXCEPT !.collection_seq = SetvalCollection(s)]
        dup == CollectionNameTaken(s, uid, new_name, None)
        e2 == Exec(s1, "create_collection.insert", F)
        \* nextval is taken before the constraint is checked
        s2 == [e2 EXCEPT !.collection_seq = s1.collection_seq + 1]
        e2dup == [s2 EXCEPT !.tx = "inerror", !.dberr = TRUE]
        e3 == Commit(s2, "create_collection.commit", F)
        row == [collectionid |-> s2.collection_seq, userid |-> uid, name |-> new_name]
        s3 == [e3 EXCEPT !.collection = @ \cup {row}]
    IN  IF new_name = <<>>
        THEN Show(s, "warning", "Please enter a name for the new collection.")
        ELSE IF ~ExecOk(s, "create_collection.setval", F) THEN except(e1, FALSE)
        ELSE IF ~ExecOk(s1, "create_collection.insert", F) THEN except(e2, FALSE)
        ELSE IF dup THEN except(e2dup, TRUE)
        ELSE IF ~CommitOk(s2, "create_collection.commit", F) THEN except(e3, FALSE)
        ELSE load_profile(load_collections(s3, F), F)

RenameLabels ==
    {"rename_collection.update", "rename_collection.commit", "load_collections.select"}

\* rename_collection with an UPDATE that selects by the name shown in the row
rename_collection_by_name(s, row, new_name, F) ==
    LET hit == {c \in s.collection : c.name = row.name}
        s2 == [s EXCEPT !.collection =
                   (@ \ hit) \cup {[c EXCEPT !.name = new_name] : c \in hit}]
    IN  IF row.collectionid = None
        THEN Show(s, "warning", "Please select a collection from the list first.")
        ELSE IF new_name = <<>> THEN s
        ELSE load_collections(s2, F)

\* CollectionsFrame.rename_collection; row is the selected row of the tree,
\* new_name what the dialog returned (the empty text when it was cancelled)
rename_collection(s, row, new_name, F) ==
    LET except(x, dup) ==
            Show(Rollback(x), "error",
                 IF dup THEN "A collection with this name already exists."
                 ELSE "Database Error: Failed to rename collection")
        uid == s.current_user_id
        hit == {c \in s.collection : c.collectionid = row.collectionid /\ c.userid = uid}
        dup == hit # {} /\ CollectionNameTaken(s, uid, new_name, row.collectionid)
        e1 == Exec(s, "rename_collection.update", F)
        e1dup == [e1 EXCEPT !.tx = "inerror", !.dberr = TRUE]
        e2 == Commit(e1, "rename_collection.commit", F)
        s2 == [e2 EXCEPT !.collection =
                   (@ \ hit) \cup {[c EXCEPT !.name = new_name] : c \in hit}]
    IN  IF row.collectionid = None
        THEN Show(s, "warning", "Please select a collection from the list first.")
        ELSE IF new_name = <<>> THEN s
        ELSE IF ~ExecOk(s, "rename_collection.update", F) THEN except(e1, FALSE)
        ELSE IF dup THEN except(e1dup, TRUE)
        ELSE IF ~CommitOk(e1, "rename_collection.commit", F) THEN except(e2, FALSE)
        ELSE load_collections(s2, F)

DeleteLabels ==
    {"delete_collection.games", "delete_collection.collection", "delete_collection.commit",
     "load_collections.select", "load_profile.collections", "load_profile.followers",
     "load_profile.following", "load_top_games.select"}

\* delete_collection that also deletes the owner's plays of the games
delete_collection_with_plays(s, row, confirmed, F) ==
    IF row.collectionid = None \/ ~confirmed THEN s
    ELSE load_collections(
             [s EXCEPT !.collectiongame = {cg \in @ : cg[1] # row.collectionid},
                       !.collection = {c \in @ : c.collectionid # row.collectionid},
                       !.plays = SelectSeq(@, LAMBDA p :
                                    <<row.collectionid, p.gameid>> \notin s.collectiongame)],
             F)

\* CollectionsFrame.delete_collection
delete_collection(s, row, confirmed, F) ==
    LET except(x) == Show(Rollback(x), "error", "Database Error: Failed to delete collection")
        uid == s.current_user_id
        e1 == Exec(s, "delete_collection.games", F)
        e2 == Exec(e1, "delete_collection.collection", F)
        e3 == Commit(e2, "delete_collection.commit", F)
        s3 == [e3 EXCEPT
                 !.collectiongame = {cg \in @ : cg[1] # row.collectionid},
                 !.collection = {c \in @ : ~(c.collectionid = row.collectionid
                                              /\ c.userid = uid)}]
    IN  IF row.collectionid = None
        THEN Show(s, "warning", "Please select a collection from the list first.")
        ELSE IF ~confirmed THEN s
        ELSE IF ~ExecOk(s, "delete_collection.games", F) THEN except(e1)
        ELSE IF ~ExecOk(e1, "delete_collection.collection", F) THEN except(e2)
        ELSE IF ~CommitOk(e2, "delete_collection.commit", F) THEN except(e3)
        ELSE load_profile(load_collections(s3, F), F)

PlayRandomLabels ==
    {"play_random.select", "play_random.insert", "play_random.commit",
     "load_collections.select"}

\* a SELECT of the games without its WHERE clause: the games of every collection
GamesOfAnyCollection(s, collection_id) ==
    {cg[2] : cg \in s.collectiongame}

\* the games play_random selects from the collection
GamesOfCollection(s, collection_id) ==
    {cg[2] : cg \in {cg \in s.collectiongame : cg[1] = collection_id}}

\* CollectionsFrame.play_random; game_id is what random.choice drew and
\* duration what the dialog returned (None when it was cancelled)
play_random(s, row, game_id, duration, F) ==
    LET except(x) == Show(Rollback(x), "error", "Database Error: Failed to play random game")
        e1 == Exec(s, "play_random.select", F)
        e2 == Exec(e1, "play_random.insert", F)
        e3 == Commit(e2, "play_random.commit", F)
        s3 == [e3 EXCEPT !.plays = Append(@, [userid |-> s.current_user_id,
                                              gameid |-> game_id, duration |-> duration])]
    IN  IF row.collectionid = None
        THEN Show(s, "warning", "Please select a collection from the list first.")
        ELSE IF ~ExecOk(s, "play_random.select", F) THEN except(e1)
        ELSE IF GamesOfCollection(s, row.collectionid) = {}
             THEN Show(e1, "info", "Empty Collection")
        ELSE IF duration = None THEN e1
        ELSE IF ~ExecOk(e1, "play_random.insert", F) THEN except(e2)
        ELSE IF ~CommitOk(e2, "play_random.commit", F) THEN except(e3)
        ELSE load_collections(Show(s3, "info", "Logged a random game"), F)

\* CollectionDetailWindow.load_games
load_games(s, F) ==
    LET s1 == [s EXCEPT !.detail_tree = {}]
        e == Exec(s1, "load_games.select", F)
    IN  IF ExecOk(s1, "load_games.select", F)
        THEN [e EXCEPT !.detail_tree = GamesOfCollection(s, s.detail_collection_id)
                                          \cap s.videogame]
        ELSE Rollback(Show(e, "error", "Failed to load games in collection"))

\* CollectionsFrame.view_collection_details: the window opens and loads
view_collection_details(s, row, F) ==
    IF row.collectionid = None
    THEN Show(s, "warning", "Please select a collection from the list first.")
    ELSE load_games([s EXCEPT !.detail_collection_id = row.collectionid], F)

RemoveLabels == {"remove_game.delete", "remove_game.commit", "load_games.select"}

\* CollectionDetailWindow.remove_game; game_id is the selected row (None
\* when none is selected)
remove_game(s, game_id, confirmed, F) ==
    LET except(x) == Show(Rollback(x), "error", "Database Error: Failed to remove game")
        e1 == Exec(s, "remove_game.delete", F)
        e2 == Commit(e1, "remove_game.commit", F)
        s2 == [e2 EXCEPT !.collectiongame = @ \ {<<s.detail_collection_id, game_id>>}]
    IN  IF game_id = None THEN Show(s, "warning", "Please select a game to remove.")
        ELSE IF ~confirmed THEN s
        ELSE IF ~ExecOk(s, "remove_game.delete", F) THEN except(e1)
        ELSE IF ~CommitOk(e1, "remove_game.commit", F) THEN except(e2)
        ELSE load_games(s2, F)

\* Toplevel.destroy(): the window is gone
destroy(s) == [s EXCEPT !.detail_collection_id = None, !.detail_tree = {}]

\* CollectionDetailWindow.close, bound to the Close button
close(s, F) == destroy(load_collections(s, F))

(***************************************************************************)
(* The "Search Games" tab.                                                 *)
(***************************************************************************)
\* SQL NULL in a text column and in the price column
NullText == <<"NULL">>

NoPrice == -1

RECURSIVE JoinTexts(_)
\* ', '.join(texts)
JoinTexts(texts) ==
    IF texts = <<>> THEN <<>>
    ELSE IF Len(texts) = 1 THEN texts[1]
    ELSE texts[1] \o <<",", " ">> \o JoinTexts(Tail(texts))

\* STRING_AGG(DISTINCT name, ', ') over the names N of the joined rows: the
\* distinct names in their sort order, NULL when there is none
STRING_AGG(N) == IF N = {} THEN NullText ELSE JoinTexts(SortSet(N, LexLess))

\* f"%{text}%"
Pattern(text) == <<"%">> \o text \o <<"%">>

\* a query parameter: a text or a number <<numerator, denominator>>
TextParam(text) == [kind |-> "text", text |-> text, num |-> <<0, 1>>]

NumParam(n, d) == [kind |-> "number", text |-> <<>>, num |-> <<n, d>>]

\* base_sql of search_games by its parts: the two placeholders of the joins
\* on plays and purchases, then WHERE and the predicate 1=1
base_sql ==
    <<"SELECT ... LEFT JOIN plays pl ON g.gameid = pl.gameid AND pl.userid =", "%s",
      "LEFT JOIN purchases pu ON g.gameid = pu.gameid AND pu.userid =", "%s",
      "WHERE", "1=1">>

\* the filters search_games applies for the entries f: year and price only
\* when int() and float() take the text
YearFilter(f) == f.year # <<>> /\ ParseInt(f.year).ok

PriceFilter(f) == f.price # <<>> /\ ParseFloat(f.price).ok

\* where_clauses as search_games builds it
where_clauses(f) ==
    (IF f.title # <<>> THEN << <<"g.title ILIKE", "%s">> >> ELSE <<>>)
    \o (IF f.developer # <<>> THEN << <<"dev.name ILIKE", "%s">> >> ELSE <<>>)
    \o (IF f.publisher # <<>> THEN << <<"pub.name ILIKE", "%s">> >> ELSE <<>>)
    \o (IF f.genre # <<>> THEN << <<"gen.name ILIKE", "%s">> >> ELSE <<>>)
    \o (IF f.platform # <<>> THEN << <<"p.name ILIKE", "%s">> >> ELSE <<>>)
    \o (IF YearFilter(f) THEN << <<"EXTRACT(YEAR FROM gp.releasedate) =", "%s">> >> ELSE <<>>)
    \o (IF PriceFilter(f) THEN << <<"gp.price <=", "%s">> >> ELSE <<>>)

\* params of a search_games that appends no parameter for the price
params_without_price(uid, f) ==
    <<NumParam(uid, 1), NumParam(uid, 1)>>
    \o (IF f.title # <<>> THEN <<TextParam(Pattern(f.title))>> ELSE <<>>)
    \o (IF f.developer # <<>> THEN <<TextParam(Pattern(f.developer))>> ELSE <<>>)
    \o (IF f.publisher # <<>> THEN <<TextParam(Pattern(f.publisher))>> ELSE <<>>)
    \o (IF f.genre # <<>> THEN <<TextParam(Pattern(f.genre))>> ELSE <<>>)
    \o (IF f.platform # <<>> THEN <<TextParam(Pattern(f.platform))>> ELSE <<>>)
    \o (IF YearFilter(f) THEN <<NumParam(ParseInt(f.year).val, 1)>> ELSE <<>>)

\* params as search_games builds it
params(uid, f) ==
    <<NumParam(uid, 1), NumParam(uid, 1)>>
    \o (IF f.title # <<>> THEN <<TextParam(Pattern(f.title))>> ELSE <<>>)
    \o (IF f.developer # <<>> THEN <<TextParam(Pattern(f.developer))>> ELSE <<>>)
    \o (IF f.publisher # <<>> THEN <<TextParam(Pattern(f.publisher))>> ELSE <<>>)
    \o (IF f.genre # <<>> THEN <<TextParam(Pattern(f.genre))>> ELSE <<>>)
    \o (IF f.platform # <<>> THEN <<TextParam(Pattern(f.platform))>> ELSE <<>>)
    \o (IF YearFilter(f) THEN <<NumParam(ParseInt(f.year).val, 1)>> ELSE <<>>)
    \o (IF PriceFilter(f)
        THEN <<NumParam(ParseFloat(f.price).val[1], ParseFloat(f.price).val[2])>>
        ELSE <<>>)

RECURSIVE JoinAnd(_)
\* " AND " + " AND ".join(where_clauses)
JoinAnd(clauses) ==
    IF clauses = <<>> THEN <<>> ELSE <<"AND">> \o Head(clauses) \o JoinAnd(Tail(clauses))

\* the statement search_games executes
SearchSql(f) ==
    base_sql \o JoinAnd(where_clauses(f))
    \o <<"GROUP BY g.gameid, g.title, g.esrb_rating, pu.starrating",
         "ORDER BY g.title ASC, minreleasedate ASC">>

\* the placeholders of a statement
Placeholders(sql) == Cardinality({i \in DOMAIN sql : sql[i] = "%s"})

\* the warnings of search_games for entries that are no numbers
SearchWarnings(f) ==
    (IF f.year # <<>> /\ ~ParseInt(f.year).ok
     THEN {<<"warning", "Invalid Release Year">>} ELSE {})
    \cup (IF f.price # <<>> /\ ~ParseFloat(f.price).ok
          THEN {<<"warning", "Invalid Price">>} ELSE {})

\* the rows of one LEFT JOIN that the WHERE clause keeps for a game: of the
\* rows S joined to it those passing the filters, and the one NULL row of a
\* game with none only when no filter reads the joined table
Kept(S, filtered, Passes(_)) ==
    IF S = {} THEN (IF filtered THEN {} ELSE {<<None, None>>})
    ELSE {x \in S : Passes(x)}

\* the rows of game g that the joins produce and the WHERE clause keeps, by
\* joined table, for the entries f with their year and price filters (None
\* where the filter is not applied); the joined rows are their product
JoinedBy(s, g, f, year, price) ==
    [title |-> f.title # <<>> => ILike(NameOf(s.names.title, g), Pattern(f.title)),
     platform |->
         Kept({x \in s.gameplatform : x[1] = g},
              f.platform # <<>> \/ year.ok \/ price.ok,
              LAMBDA x :
                  /\ f.platform # <<>> =>
                         ILike(NameOf(s.names.platform, x[2]), Pattern(f.platform))
                  /\ year.ok => s.release[x].year = year.val
                  /\ price.ok =>
                         s.release[x].price * price.val[2] <= price.val[1] * 100),
     developer |->
         Kept({x \in s.gamedeveloper : x[1] = g}, f.developer # <<>>,
              LAMBDA x : f.developer # <<>> =>
                             ILike(NameOf(s.names.company, x[2]), Pattern(f.developer))),
     publisher |->
         Kept({x \in s.gamepublisher : x[1] = g}, f.publisher # <<>>,
              LAMBDA x : f.publisher # <<>> =>
                             ILike(NameOf(s.names.company, x[2]), Pattern(f.publisher))),
     genre |->
         Kept({x \in s.gamegenre : x[1] = g}, f.genre # <<>>,
              LAMBDA x : f.genre # <<>> =>
                             ILike(NameOf(s.names.genre, x[2]), Pattern(f.genre)))]

\* a filter that is not applied
NoFilter == [ok |-> FALSE, val |-> <<0, 1>>]

JoinedRows(s, g) ==
    JoinedBy(s, g, s.filters,
             IF YearFilter(s.filters) THEN ParseInt(s.filters.year) ELSE NoFilter,
             IF PriceFilter(s.filters) THEN ParseFloat(s.filters.price) ELSE NoFilter)

\* the names of the rows of one joined table that are not its NULL row
NamesOf(rows, f) == {NameOf(f, x[2]) : x \in {y \in rows : y[2] # None}}

\* the aggregates of game g over its joined rows j, of which those in
\* released have a gameplatform row: SUM adds every play of the user once
\* for each joined row
Aggregates(s, uid, g, j, released) ==
    [gameid |-> g,
     title |-> NameOf(s.names.title, g),
     esrb_rating |-> NameOf(s.names.esrb_rating, g),
     platforms |-> STRING_AGG(NamesOf(j.platform, s.names.platform)),
     developers |-> STRING_AGG(NamesOf(j.developer, s.names.company)),
     publishers |-> STRING_AGG(NamesOf(j.publisher, s.names.company)),
     genres |-> STRING_AGG(NamesOf(j.genre, s.names.genre)),
     totalplaytime |->
         Cardinality(j.platform) * Cardinality(j.developer)
         * Cardinality(j.publisher) * Cardinality(j.genre)
         * SumDurations(s.plays,
               {i \in 1..Len(s.plays) : s.plays[i].userid = uid /\ s.plays[i].gameid = g}),
     starrating |-> StarRating(s, uid, g),
     releaseyear |-> IF released = {} THEN None
                     ELSE Least({s.release[x].year : x \in released}),
     minprice |-> IF released = {} THEN NoPrice
                  ELSE Least({s.release[x].price : x \in released})]

Released(platform) == {x \in platform : x[2] # None}

\* the row search_games selects for game g, listed when SearchLists holds:
\* each aggregate runs over the joined rows the WHERE clause kept
SearchRowOf(s, uid, g, j) == Aggregates(s, uid, g, j, Released(j.platform))

SearchRow(s, uid, g) == SearchRowOf(s, uid, g, JoinedRows(s, g))

ListsOf(j) ==
    /\ j.title
    /\ j.platform # {} /\ j.developer # {} /\ j.publisher # {} /\ j.genre # {}

\* the games search_games lists: those with a joined row left
SearchLists(s, g) == ListsOf(JoinedRows(s, g))

\* ORDER BY g.title ASC, minreleasedate ASC over the rows selected; the
\* titles of a catalog differ, which leaves one order
SearchBefore(r, q) ==
    \/ LexLess(r.title, q.title)
    \/ r.title = q.title /\ r.releaseyear < q.releaseyear
    \/ r.title = q.title /\ r.releaseyear = q.releaseyear /\ r.gameid < q.gameid

\* what tree.focus() gives when no row of the results is selected
NoGame ==
    [gameid |-> None, title |-> <<>>, esrb_rating |-> <<>>, platforms |-> NullText,
     developers |-> NullText, publishers |-> NullText, genres |-> NullText,
     totalplaytime |-> 0, starrating |-> None, releaseyear |-> None,
     minprice |-> NoPrice]

\* the rows the statement of search_games selects
SearchRows(s) ==
    {SearchRow(s, s.current_user_id, g) : g \in {x \in s.videogame : SearchLists(s, x)}}

\* the tree filled with the fetched rows
FillTree(s, fetched) ==
    [s EXCEPT !.search_results = {fetched[i] : i \in DOMAIN fetched},
              !.search_order = [i \in DOMAIN fetched |-> fetched[i].gameid]]

\* the statement executed
SearchQuery(s) ==
    [s EXCEPT !.search_query = [sql |-> SearchSql(s.filters),
                                params |-> params(s.current_user_id, s.filters)]]

\* the tree cleared and the warnings shown
SearchCleared(s) ==
    [s EXCEPT !.search_results = {}, !.search_order = <<>>,
              !.msgs = @ \cup SearchWarnings(s.filters)]

\* SearchFrame.search_games: the tree is filled in the order of the rows
search_games(s, F) ==
    IF ExecOk(SearchCleared(s), "search_games.select", F)
    THEN FillTree(Exec(SearchQuery(SearchCleared(s)), "search_games.select", F),
                  SortSet(SearchRows(s), SearchBefore))
    ELSE Rollback(Show(Exec(SearchQuery(SearchCleared(s)), "search_games.select", F),
                       "error", "Failed to search games"))

\* the columns of the search tree that are displayed
visible_cols ==
    {"Title", "Year", "Price", "Platforms", "Developers", "Publisher", "My Playtime",
     "Age Rating", "My Rating"}

\* what the tree holds for a value: Tk stores str(value), "None" for None
CellText(text) == IF text = NullText THEN <<"N", "o", "n", "e">> ELSE text

\* the columns sort_column compares as numbers
NumericCols == {"Price", "My Playtime", "My Rating", "Year"}

\* float() of the tree's value raises ValueError: the hidden rating column
\* of an unrated game holds "None"
SortRaises(col, row) == col = "My Rating" /\ row.starrating = None

\* the key of a row in a numeric column: the price in cents, -1.0 for "N/A";
\* the playtime; the rating; the year, 0 for "N/A"
SortNumber(col, row) ==
    IF col = "Price" THEN (IF row.minprice = NoPrice THEN -100 ELSE row.minprice)
    ELSE IF col = "My Playtime" THEN row.totalplaytime
    ELSE IF col = "My Rating" THEN row.starrating
    ELSE IF row.releaseyear = None THEN 0 ELSE row.releaseyear

\* the key of a row in any other column: the lower-cased text of the cell
SortText(col, row) ==
    LowerText(CellText(IF col = "Title" THEN row.title
                       ELSE IF col = "Platforms" THEN row.platforms
                       ELSE IF col = "Developers" THEN row.developers
                       ELSE IF col = "Publisher" THEN row.publishers
                       ELSE IF col = "Age Rating" THEN row.esrb_rating
                       ELSE row.genres))

\* (val, item) < (val, item) of data.sort: the key first, then the item id,
\* which grows in the order search_games inserted the rows
SortBefore(col, r, q) ==
    IF col \in NumericCols
    THEN \/ SortNumber(col, r) < SortNumber(col, q)
         \/ SortNumber(col, r) = SortNumber(col, q) /\ SearchBefore(r, q)
    ELSE \/ LexLess(SortText(col, r), SortText(col, q))
         \/ SortText(col, r) = SortText(col, q) /\ SearchBefore(r, q)

\* SearchFrame.sort_column: an exception while the keys are read is printed
\* and nothing is sorted
sort_column(s, col, reverse) ==
    LET data == SortSet(s.search_results,
                        LAMBDA r, q : IF reverse THEN SortBefore(col, q, r)
                                      ELSE SortBefore(col, r, q))
        s1 == [s EXCEPT !.search_order = [i \in DOMAIN data |-> data[i].gameid]]
    IN  IF \E row \in s.search_results : SortRaises(col, row) THEN s
        ELSE IF col \in visible_cols
             THEN [s1 EXCEPT !.heading_reverse[col] = ~reverse]
             ELSE s1

\* the options of the sort menu
SortOptions ==
    {"Title ASC", "Title DESC", "Price ASC", "Price DESC", "Genre ASC", "Genre DESC",
     "Year ASC", "Year DESC"}

\* SearchFrame.apply_sort
apply_sort(s, sort_option) ==
    LET col == IF sort_option \in {"Price ASC", "Price DESC"} THEN "Price"
               ELSE IF sort_option \in {"Genre ASC", "Genre DESC"} THEN "Genres"
               ELSE IF sort_option \in {"Year ASC", "Year DESC"} THEN "Year"
               ELSE "Title"
        reverse == sort_option \in {"Title DESC", "Price DESC", "Genre DESC", "Year DESC"}
    IN  sort_column(s, col, reverse)

AddLabels ==
    {"add_to_collection.userplatform", "add_to_collection.gameplatform",
     "add_to_collection.collections", "add_to_collection.insert",
     "add_to_collection.commit", "load_collections.select"}

\* SearchFrame.add_to_collection; proceed is the answer to the platform
\* warning and choice the name picked in the dialog (empty when cancelled)
add_to_collection(s, row, proceed, choice, F) ==
    LET uid == s.current_user_id
        game_id == row.gameid
        except(x, dup) ==
            Show(Rollback(x), "error",
                 IF dup THEN "is already in that collection."
                 ELSE "Database Error: Failed to add game")
        e1 == Exec(s, "add_to_collection.userplatform", F)
        user_platforms == {x[2] : x \in {x \in s.userplatform : x[1] = uid}}
        e2 == Exec(e1, "add_to_collection.gameplatform", F)
        game_platforms == {x[2] : x \in {x \in s.gameplatform : x[1] = game_id}}
        e3 == Exec(e2, "add_to_collection.collections", F)
        collections == {c \in s.collection : c.userid = uid}
        chosen == {c \in collections : c.name = choice}
        chosen_collection_id == (CHOOSE c \in chosen : TRUE).collectionid
        dup == <<chosen_collection_id, game_id>> \in s.collectiongame
        e4 == Exec(e3, "add_to_collection.insert", F)
        e4dup == [e4 EXCEPT !.tx = "inerror", !.dberr = TRUE]
        e5 == Commit(e4, "add_to_collection.commit", F)
        s5 == [e5 EXCEPT !.collectiongame = @ \cup {<<chosen_collection_id, game_id>>}]
    IN  IF game_id = None
        THEN Show(s, "warning", "Please select a game from the search results.")
        ELSE IF ~ExecOk(s, "add_to_collection.userplatform", F)
             THEN Rollback(Show(e1, "error", "Could not verify platforms"))
        ELSE IF ~ExecOk(e1, "add_to_collection.gameplatform", F)
             THEN Rollback(Show(e2, "error", "Could not verify platforms"))
        ELSE IF user_platforms \cap game_platforms = {} /\ ~proceed THEN e2
        ELSE IF ~ExecOk(e2, "add_to_collection.collections", F) THEN except(e3, FALSE)
        ELSE IF collections = {}
             THEN Show(e3, "error", "You have no collections. Please create one first.")
        ELSE IF choice = <<>> THEN e3
        ELSE IF ~ExecOk(e3, "add_to_collection.insert", F) THEN except(e4, FALSE)
        ELSE IF dup THEN except(e4dup, TRUE)
        ELSE IF ~CommitOk(e4, "add_to_collection.commit", F) THEN except(e5, FALSE)
        ELSE load_collections(Show(s5, "info", "Added to collection"), F)

RateLabels ==
    {"rate_game.insert", "rate_game.commit", "search_games.select",
     "load_profile.collections", "load_profile.followers", "load_profile.following",
     "load_top_games.select"}

\* a plain INSERT in place of the upsert, the table taken without its key
InsertRating(purchases_rows, uid, game_id, rating) ==
    purchases_rows \cup {[userid |-> uid, gameid |-> game_id, starrating |-> rating]}

\* INSERT INTO purchases ... ON CONFLICT (userid, gameid) DO UPDATE
Upsert(purchases_rows, uid, game_id, rating) ==
    {pu \in purchases_rows : ~(pu.userid = uid /\ pu.gameid = game_id)}
        \cup {[userid |-> uid, gameid |-> game_id, starrating |-> rating]}

\* SearchFrame.rate_game; rating is what the dialog returned (None when it
\* was cancelled)
rate_game(s, row, rating, F) ==
    LET e1 == Exec(s, "rate_game.insert", F)
        e2 == Commit(e1, "rate_game.commit", F)
        s2 == [e2 EXCEPT !.purchases = Upsert(@, s.current_user_id, row.gameid, rating)]
        except(x) == Show(Rollback(x), "error", "Database Error: Failed to rate game")
    IN  IF row.gameid = None
        THEN Show(s, "warning", "Please select a game from the search results.")
        ELSE IF rating = None THEN s
        ELSE IF ~ExecOk(s, "rate_game.insert", F) THEN except(e1)
        ELSE IF ~CommitOk(e1, "rate_game.commit", F) THEN except(e2)
        ELSE load_profile(search_games(Show(s2, "info", "Set rating"), F), F)

PlayLabels ==
    {"play_game.insert", "play_game.commit", "search_games.select",
     "load_collections.select", "load_profile.collections", "load_profile.followers",
     "load_profile.following", "load_top_games.select"}

\* SearchFrame.play_game; duration is what the dialog returned (None when it
\* was cancelled)
play_game(s, row, duration, F) ==
    LET e1 == Exec(s, "play_game.insert", F)
        e2 == Commit(e1, "play_game.commit", F)
        s2 == [e2 EXCEPT !.plays = Append(@, [userid |-> s.current_user_id,
                                              gameid |-> row.gameid,
                                              duration |-> duration])]
        except(x) == Show(Rollback(x), "error", "Database Error: Failed to log play session")
    IN  IF row.gameid = None
        THEN Show(s, "warning", "Please select a game from the search results.")
        ELSE IF duration = None THEN s
        ELSE IF ~ExecOk(s, "play_game.insert", F) THEN except(e1)
        ELSE IF ~CommitOk(e1, "play_game.commit", F) THEN except(e2)
        ELSE load_profile(load_collections(search_games(
                 Show(s2, "info", "Logged play session"), F), F), F)

(***************************************************************************)
(* The "Social" tab.                                                       *)
(***************************************************************************)
\* SocialFrame.search_users; the rows of the tree are kept by their userid
search_users(s, email_query, F) ==
    LET s1 == [s EXCEPT !.search_tree = {}]
        e == Exec(s1, "search_users.select", F)
        found == {u \in s.users :
                     /\ ILike(u.email, <<"%">> \o email_query \o <<"%">>)
                     /\ u.userid # s.current_user_id}
    IN  IF email_query = <<>> THEN s1
        ELSE IF ExecOk(s1, "search_users.select", F)
             THEN [e EXCEPT !.search_tree = {u.userid : u \in found}]
             ELSE Rollback(Show(e, "error", "Failed to search users"))

FollowLabels ==
    {"follow_user.insert", "follow_user.commit", "load_following.select",
     "load_profile.collections", "load_profile.followers", "load_profile.following",
     "load_top_games.select"}

\* SocialFrame.follow_user; user_id is the selected row of the search tree
\* (None when none is selected)
follow_user(s, user_id, F) ==
    LET except(x, dup) ==
            Show(Rollback(x), "error",
                 IF dup THEN "You are already following"
                 ELSE "Database Error: Failed to follow user")
        edge == <<s.current_user_id, user_id>>
        e1 == Exec(s, "follow_user.insert", F)
        e1dup == [e1 EXCEPT !.tx = "inerror", !.dberr = TRUE]
        e2 == Commit(e1, "follow_user.commit", F)
        s2 == [e2 EXCEPT !.follows = @ \cup {edge}]
    IN  IF user_id = None
        THEN Show(s, "warning", "Please select a user from the search results to follow.")
        ELSE IF ~ExecOk(s, "follow_user.insert", F) THEN except(e1, FALSE)
        ELSE IF edge \in s.follows THEN except(e1dup, TRUE)
        ELSE IF ~CommitOk(e1, "follow_user.commit", F) THEN except(e2, FALSE)
        ELSE load_profile(load_following(Show(s2, "info", "You are now following"), F), F)

UnfollowLabels ==
    {"unfollow_user.delete", "unfollow_user.commit", "load_following.select",
     "load_profile.collections", "load_profile.followers", "load_profile.following",
     "load_top_games.select"}

\* SocialFrame.unfollow_user; user_id is the selected row of the following
\* tree (None when none is selected)
unfollow_user(s, user_id, confirmed, F) ==
    LET except(x) == Show(Rollback(x), "error", "Database Error: Failed to unfollow user")
        e1 == Exec(s, "unfollow_user.delete", F)
        e2 == Commit(e1, "unfollow_user.commit", F)
        s2 == [e2 EXCEPT !.follows = @ \ {<<s.current_user_id, user_id>>}]
    IN  IF user_id = None
        THEN Show(s, "warning", "Please select a user from your 'Following' list to unfollow.")
        ELSE IF ~confirmed THEN s
        ELSE IF ~ExecOk(s, "unfollow_user.delete", F) THEN except(e1)
        ELSE IF ~CommitOk(e1, "unfollow_user.commit", F) THEN except(e2)
        ELSE load_profile(load_following(Show(s2, "info", "You have unfollowed"), F), F)

(***************************************************************************)
(* The "Popular & Recommended" tab.  rec_path tells which query filled the *)
(* recommendations in the handler that just ran, rec_genres and            *)
(* rec_developers which rows its two LIMIT 3 sub-queries returned.         *)
(***************************************************************************)
\* LIMIT 20 of both recommendation queries
RecLimit == 20

\* LIMIT 3 of user_genres and user_developers
TopLimit == 3

\* score of a match on the genre, and of a match on the developer
GenrePoints == 3

DeveloperPoints == 3

\* HAVING AVG(pu.starrating) >= 4
HighlyRated == 4

\* user_games: the games in any collection of the user
user_games(s, uid) ==
    {cg[2] : cg \in {cg \in s.collectiongame :
        \E c \in s.collection : c.collectionid = cg[1] /\ c.userid = uid}}

\* COUNT(*) of the group of key k in user_games JOIN rel
GroupCount(rel, owned, k) == Cardinality({x \in rel : x[1] \in owned /\ x[2] = k})

\* the results GROUP BY key ORDER BY COUNT(*) DESC LIMIT 3 can give: ties
\* at the cut are broken by the server
TopSets(rel, owned) ==
    LET keys == {x[2] : x \in {x \in rel : x[1] \in owned}}
    IN  {T \in SUBSET keys :
            /\ Cardinality(T) = Min(TopLimit, Cardinality(keys))
            /\ \A t \in T : \A k \in keys \ T :
                   GroupCount(rel, owned, t) >= GroupCount(rel, owned, k)}

RECURSIVE SumRatings(_)
SumRatings(rows) ==
    IF rows = {} THEN 0
    ELSE LET r == CHOOSE x \in rows : TRUE
         IN  r.starrating + SumRatings(rows \ {r})

\* AVG(starrating) of a game as <<sum, count>> of its non-NULL ratings, and
\* COALESCE(AVG, 0) as <<0, 1>>
Avg(s, g) ==
    LET rows == {pu \in s.purchases : pu.gameid = g /\ pu.starrating # None}
    IN  IF rows = {} THEN <<0, 1>> ELSE <<SumRatings(rows), Cardinality(rows)>>

\* comparison of two averages
AvgLess(a, b) == a[1] * b[2] < b[1] * a[2]

RECURSIVE AscSeq(_)
\* the numbers of a set in ascending order
AscSeq(S) ==
    IF S = {} THEN <<>>
    ELSE LET m == CHOOSE x \in S : \A y \in S : x <= y
         IN  <<m>> \o AscSeq(S \ {m})

\* the row of the primary query scored without the points of the developer
PrimaryRowGenreOnly(s, g, top_genres, top_developers) ==
    LET gg == \E x \in s.gamegenre : x[1] = g /\ x[2] \in top_genres
        gd == \E x \in s.gamedeveloper : x[1] = g /\ x[2] \in top_developers
    IN  [gameid |-> g,
         reason |-> IF gg THEN "Favorite Genre" ELSE "Favorite Developer",
         score |-> IF gg \/ gd THEN GenrePoints ELSE 0,
         avg_rating |-> Avg(s, g)]

\* the row of the primary query for game g after DISTINCT ON (g.gameid)
PrimaryRow(s, g, top_genres, top_developers) ==
    LET gg == \E x \in s.gamegenre : x[1] = g /\ x[2] \in top_genres
        gd == \E x \in s.gamedeveloper : x[1] = g /\ x[2] \in top_developers
    IN  [gameid |-> g,
         reason |-> IF gg THEN "Favorite Genre"
                    ELSE IF gd THEN "Favorite Developer" ELSE "Popular Choice",
         score |-> (IF gg THEN GenrePoints ELSE 0) + (IF gd THEN DeveloperPoints ELSE 0),
         avg_rating |-> Avg(s, g)]

\* the primary query without its WHERE g.gameid NOT IN (user_games)
PrimaryRowsWithOwned(s, uid, top_genres, top_developers) ==
    LET cand == {g \in s.videogame :
                    PrimaryRow(s, g, top_genres, top_developers).score > 0}
        ids == AscSeq(cand)
    IN  Limit([i \in 1..Len(ids) |-> PrimaryRow(s, ids[i], top_genres, top_developers)],
              RecLimit)

\* the rows of the primary query: ORDER BY g.gameid, score DESC, avg_rating
\* DESC leaves one row per game, by gameid, and LIMIT 20 cuts that list
PrimaryRows(s, uid, top_genres, top_developers) ==
    LET owned == user_games(s, uid)
        cand == {g \in s.videogame \ owned :
                    PrimaryRow(s, g, top_genres, top_developers).score > 0}
        ids == AscSeq(cand)
    IN  Limit([i \in 1..Len(ids) |-> PrimaryRow(s, ids[i], top_genres, top_developers)],
              RecLimit)

\* the fallback query without its HAVING clause
FallbackGamesUnrated(s, uid) == s.videogame \ user_games(s, uid)

\* the games the fallback query keeps: not owned, average rating at least 4
FallbackGames(s, uid) ==
    {g \in s.videogame \ user_games(s, uid) :
        /\ \E pu \in s.purchases : pu.gameid = g /\ pu.starrating # None
        /\ Avg(s, g)[1] >= HighlyRated * Avg(s, g)[2]}

\* the orders ORDER BY avg_rating DESC can give the fallback games
FallbackOrders(s, uid) ==
    LET G == FallbackGames(s, uid)
    IN  {o \in [1..Cardinality(G) -> G] :
            /\ \A i, j \in DOMAIN o : i # j => o[i] # o[j]
            /\ \A i, j \in DOMAIN o : i < j => ~AvgLess(Avg(s, o[i]), Avg(s, o[j]))}

\* the rows of the fallback query in the order the server chose
FallbackRows(s, order) ==
    Limit([i \in 1..Len(order) |->
              [gameid |-> order[i], reason |-> "Highly Rated", score |-> 3,
               avg_rating |-> Avg(s, order[i])]],
          RecLimit)

RecLabels == {"load_recommendations.primary", "load_recommendations.fallback"}

\* PopularFrame.load_recommendations; top_genres and top_developers are the
\* rows the server returned for the two LIMIT 3 sub-queries, order the order
\* it gave the fallback rows
load_recommendations(s, top_genres, top_developers, order, F) ==
    LET uid == s.current_user_id
        s1 == [s EXCEPT !.recommendations_tree = <<>>]
        except(x) == Rollback(Show([x EXCEPT !.rec_path = "failed"], "error",
                                   "Failed to load recommendations"))
        e1 == Exec(s1, "load_recommendations.primary", F)
        results == PrimaryRows(s, uid, top_genres, top_developers)
        e2 == Exec(e1, "load_recommendations.fallback", F)
    IN  IF uid = None THEN s1
        ELSE IF ~ExecOk(s1, "load_recommendations.primary", F) THEN except(e1)
        ELSE IF results # <<>>
             THEN [e1 EXCEPT !.recommendations_tree = results, !.rec_user = uid,
                             !.rec_genres = top_genres,
                             !.rec_developers = top_developers,
                             !.rec_path = "primary"]
        ELSE IF ~ExecOk(e1, "load_recommendations.fallback", F) THEN except(e2)
        ELSE [e2 EXCEPT !.recommendations_tree = FallbackRows(s, order),
                        !.rec_user = uid,
                        !.rec_genres = top_genres, !.rec_developers = top_developers,
                        !.rec_path = "fallback"]

\* PopularFrame.refresh_recommendations
refresh_recommendations(s, top_genres, top_developers, order, F) ==
    load_recommendations([s EXCEPT !.recommendations_tree = <<>>],
                         top_genres, top_developers, order, F)

\* PopularFrame.on_subtab_changed
on_subtab_changed(s, tab_text, top_genres, top_developers, order, F) ==
    IF tab_text = "Recommended For You" /\ s.recommendations_tree = <<>>
    THEN load_recommendations(s, top_genres, top_developers, order, F)
    ELSE s

Subtabs ==
    {"Top 20 - Last 90 Days", "Top 20 - Followed Users", "Top 5 New Releases",
     "Recommended For You"}

\* the sub-tabs the user moves between
RecSubtabs == {"Top 20 - Last 90 Days", "Recommended For You"}

(***************************************************************************)
(* Actions of the main frame.  A button acts on the selected tab; the row  *)
(* a handler reads is any row of its tree, or none.  Fs is the set of the  *)
(* sets F of failing database calls the step is taken under.               *)
(***************************************************************************)
OnTab(t) == MainActive /\ tab = t

\* a handler that returns at a cancelled dialog, or for want of a selected
\* row, makes no database call: there is none to fail
Answered(answered, Fs) == IF answered THEN Fs ELSE {{}}

CreateCollection(new_name, Fs) ==
    /\ OnTab("My Collections")
    /\ Leaves({create_collection(Cur, new_name, F) : F \in Fs})
    /\ Cardinality(collection') <= MaxCollections
    /\ collection_seq' <= MaxCollectionId

RenameCollection(new_name, Fs) ==
    /\ OnTab("My Collections")
    /\ Leaves({rename_collection(Cur, row, new_name, F) :
                row \in coll_tree, F \in Answered(new_name # <<>>, Fs)}
              \cup {rename_collection(Cur, NoRow, new_name, {})})

DeleteCollection(confirmed, Fs) ==
    /\ OnTab("My Collections")
    /\ Leaves({delete_collection(Cur, row, confirmed, F) :
                row \in coll_tree, F \in Answered(confirmed, Fs)}
              \cup {delete_collection(Cur, NoRow, confirmed, {})})

PlayRandom(duration, Fs) ==
    /\ OnTab("My Collections")
    /\ \E row \in coll_tree \cup {NoRow} :
           LET games == GamesOfCollection(Cur, row.collectionid)
           IN  Leaves({play_random(Cur, row, game_id, duration, F) :
                       game_id \in (IF games = {} THEN {None} ELSE games),
                       F \in Answered(row # NoRow, Fs)})
    /\ Len(plays') <= MaxPlays

ViewCollectionDetails(Fs) ==
    /\ OnTab("My Collections")
    /\ Leaves({view_collection_details(Cur, row, F) : row \in coll_tree, F \in Fs}
              \cup {view_collection_details(Cur, NoRow, {})})

\* the detail window holds the grab while it is open
DetailOpen == raised = "MainAppFrame" /\ detail_collection_id # None

RemoveGame(confirmed, Fs) ==
    /\ DetailOpen
    /\ Leaves({remove_game(Cur, game_id, confirmed, F) :
                game_id \in detail_tree, F \in Answered(confirmed, Fs)}
              \cup {remove_game(Cur, None, confirmed, {})})

Close(Fs) ==
    /\ DetailOpen
    /\ Leaves({close(Cur, F) : F \in Fs})

\* the window manager's close button: Toplevel's default is destroy()
WindowDeleted ==
    /\ DetailOpen
    /\ Install(destroy(Cur))

SearchGames(Fs) ==
    /\ OnTab("Search Games")
    /\ Leaves({search_games(Cur, F) : F \in Fs})

\* the user fills in the entries of the search tab and presses Search
SearchFor(f, Fs) ==
    /\ OnTab("Search Games")
    /\ Leaves({search_games([Cur EXCEPT !.filters = f], F) : F \in Fs})

\* a click on the heading of a column of the search tree
SortColumn(col) ==
    /\ OnTab("Search Games")
    /\ Install(sort_column(Cur, col, heading_reverse[col]))

\* the Apply Sort button with an option of the menu selected
ApplySort(sort_option) ==
    /\ OnTab("Search Games")
    /\ Install(apply_sort(Cur, sort_option))

\* the platform warning is shown for a game of none of the user's platforms
PlatformWarning(row) ==
    {x[2] : x \in {x \in userplatform : x[1] = current_user_id}}
        \cap {x[2] : x \in {x \in gameplatform : x[1] = row.gameid}} = {}

AddToCollection(proceed, choice, Fs) ==
    /\ OnTab("Search Games")
    /\ choice \in {<<>>} \cup {c.name : c \in {c \in collection : c.userid = current_user_id}}
    /\ proceed \/ \E row \in search_results : PlatformWarning(row)
    /\ Leaves({add_to_collection(Cur, row, proceed, choice, F) :
                row \in search_results, F \in Fs}
              \cup {add_to_collection(Cur, NoGame, proceed, choice, {})})

RateGame(rating, Fs) ==
    /\ OnTab("Search Games")
    /\ Leaves({rate_game(Cur, row, rating, F) :
                row \in search_results, F \in Answered(rating # None, Fs)}
              \cup {rate_game(Cur, NoGame, rating, {})})

PlayGame(duration, Fs) ==
    /\ OnTab("Search Games")
    /\ Leaves({play_game(Cur, row, duration, F) :
                row \in search_results, F \in Answered(duration # None, Fs)}
              \cup {play_game(Cur, NoGame, duration, {})})
    /\ Len(plays') <= MaxPlays

SearchUsers(email_query, Fs) ==
    /\ OnTab("Social")
    /\ Leaves({search_users(Cur, email_query, F) : F \in Fs})

FollowUser(Fs) ==
    /\ OnTab("Social")
    /\ Leaves({follow_user(Cur, user_id, F) : user_id \in search_tree, F \in Fs}
              \cup {follow_user(Cur, None, {})})

UnfollowUser(confirmed, Fs) ==
    /\ OnTab("Social")
    /\ Leaves({unfollow_user(Cur, user_id, confirmed, F) :
                user_id \in following_tree, F \in Answered(confirmed, Fs)}
              \cup {unfollow_user(Cur, None, confirmed, {})})

\* the radio buttons of the profile tab
LoadTopGames(sort_method, Fs) ==
    /\ OnTab("My Profile")
    /\ Leaves({load_top_games([Cur EXCEPT !.top_sort_var = sort_method], F) : F \in Fs})

\* what the server may answer to the sub-queries of the recommendations; the
\* fallback query is only run, and its order only chosen, when the primary
\* query gave no row
RecChoices ==
    LET uid == current_user_id
        owned == user_games(Cur, uid)
    IN  UNION {{<<tg, td, o>> :
                   o \in (IF PrimaryRows(Cur, uid, tg, td) = <<>>
                          THEN FallbackOrders(Cur, uid) ELSE {<<>>})}
               : tg \in TopSets(gamegenre, owned), td \in TopSets(gamedeveloper, owned)}

\* the user selects another sub-tab: <<NotebookTabChanged>>
OnSubtabChanged(tab_text, Fs) ==
    /\ OnTab("Popular & Recommended")
    /\ tab_text # subtab
    /\ LET loads == tab_text = "Recommended For You" /\ recommendations_tree = <<>>
       IN  Leaves({on_subtab_changed([Cur EXCEPT !.subtab = tab_text], tab_text,
                                  c[1], c[2], c[3], F) :
                   c \in (IF loads THEN RecChoices ELSE {<<{}, {}, <<>>>>}),
                   F \in (IF loads THEN Fs ELSE {{}})})

\* the "Refresh" button of the recommendations sub-tab
RefreshRecommendations(Fs) ==
    /\ OnTab("Popular & Recommended")
    /\ subtab = "Recommended For You"
    /\ Leaves({refresh_recommendations(Cur, c[1], c[2], c[3], F) : c \in RecChoices, F \in Fs})

(***************************************************************************)
(* Initial states.                                                         *)
(***************************************************************************)
\* rows of the users table before the application starts
UserA ==
    [userid |-> 1, username |-> <<"a">>, email |-> <<"a", "@", "b", ".", "c">>,
     password |-> hash_password("pw1", Salt0), lastaccessdate |-> "NULL"]

UserB ==
    [userid |-> 2, username |-> <<"b">>, email |-> <<"b", "@", "b", ".", "c">>,
     password |-> hash_password("pw2", Salt1), lastaccessdate |-> "NULL"]

\* a row whose password column is no salt:hash string
UserBadHash ==
    [userid |-> 2, username |-> <<"b">>, email |-> <<"b", "@", "b", ".", "c">>,
     password |-> <<"0", "0", ":", "z", "z">>, lastaccessdate |-> "NULL"]

\* a catalog without rows and the entries of the search tab left empty
NoNames ==
    [title |-> <<>>, esrb_rating |-> <<>>, platform |-> <<>>, company |-> <<>>,
     genre |-> <<>>]

NoFilters ==
    [title |-> <<>>, developer |-> <<>>, publisher |-> <<>>, genre |-> <<>>,
     platform |-> <<>>, year |-> <<>>, price |-> <<>>]

\* the names of a catalog whose texts play no part: game g is titled with g
\* letters a and rated x, row k of platform, company and genres is named
\* with k letters b
PlainNames(games, ids) ==
    [title |-> [g \in games |-> [i \in 1..g |-> "a"]],
     esrb_rating |-> [g \in games |-> <<"x">>],
     platform |-> [k \in ids |-> [i \in 1..k |-> "b"]],
     company |-> [k \in ids |-> [i \in 1..k |-> "b"]],
     genre |-> [k \in ids |-> [i \in 1..k |-> "b"]]]

\* every row of gameplatform released in year 7 at the price 5.00
PlainRelease(rows) == [x \in rows |-> [year |-> 7, price |-> 500]]

\* App.__init__ over an empty database: connected, indexes applied and
\* committed, nobody logged in, the login frame raised, every list empty
NewApp ==
    [users |-> {}, collection |-> {}, collectiongame |-> {}, plays |-> <<>>,
     purchases |-> {}, follows |-> {}, collection_seq |-> 0,
     videogame |-> {}, gamegenre |-> {}, gamedeveloper |-> {}, gamepublisher |-> {},
     gameplatform |-> {}, userplatform |-> {}, names |-> NoNames, release |-> <<>>,
     filters |-> NoFilters, search_query |-> [sql |-> <<>>, params |-> <<>>],
     search_order |-> <<>>, heading_reverse |-> [col \in visible_cols |-> FALSE],
     tie_order |-> "asc", top_sort_var |-> "rating", top_games_tree |-> <<>>,
     followed_tree |-> <<>>,
     tab |-> "My Collections", subtab |-> "Top 20 - Last 90 Days",
     detail_collection_id |-> None, detail_tree |-> {},
     rec_user |-> None, rec_genres |-> {}, rec_developers |-> {}, rec_path |-> "none",
     tx |-> "idle", current_user_id |-> None, raised |-> "LoginFrame",
     coll_tree |-> {}, search_results |-> {}, search_tree |-> {}, following_tree |-> {},
     recommendations_tree |-> <<>>,
     profile_labels |-> [collections |-> 0, followers |-> 0, following |-> 0],
     msgs |-> {}, dberr |-> FALSE, login_password |-> ""]

\* the application variables hold the state s
Shown(state) ==
    \E s \in {state} :
        /\ users = s.users
        /\ collection = s.collection
        /\ collectiongame = s.collectiongame
        /\ plays = s.plays
        /\ purchases = s.purchases
        /\ follows = s.follows
        /\ collection_seq = s.collection_seq
        /\ videogame = s.videogame
        /\ gamegenre = s.gamegenre
        /\ gamedeveloper = s.gamedeveloper
        /\ gamepublisher = s.gamepublisher
        /\ gameplatform = s.gameplatform
        /\ userplatform = s.userplatform
        /\ tab = s.tab
        /\ subtab = s.subtab
        /\ detail_collection_id = s.detail_collection_id
        /\ detail_tree = s.detail_tree
        /\ rec_user = s.rec_user
        /\ rec_genres = s.rec_genres
        /\ rec_developers = s.rec_developers
        /\ rec_path = s.rec_path
        /\ tx = s.tx
        /\ current_user_id = s.current_user_id
        /\ raised = s.raised
        /\ coll_tree = s.coll_tree
        /\ search_results = s.search_results
        /\ search_order = s.search_order
        /\ filters = s.filters
        /\ search_query = s.search_query
        /\ heading_reverse = s.heading_reverse
        /\ top_sort_var = s.top_sort_var
        /\ top_games_tree = s.top_games_tree
        /\ followed_tree = s.followed_tree
        /\ tie_order = s.tie_order
        /\ names = s.names
        /\ release = s.release
        /\ search_tree = s.search_tree
        /\ following_tree = s.following_tree
        /\ recommendations_tree = s.recommendations_tree
        /\ profile_labels = s.profile_labels
        /\ msgs = s.msgs
        /\ dberr = s.dberr
        /\ login_password = s.login_password

\* App.__init__ has returned with the tunnel started, the connection open
\* and the frames built
Connected ==
    /\ window = "built"
    /\ server = "started"
    /\ conn = "open"
    /\ calls = <<"server.start", "psycopg.connect">>

\* the variables hold the application state s of a running application
Holds(state) ==
    /\ Shown(state)
    /\ Connected

(***************************************************************************)
(* The session on its own: register, login, logout and the tabs.           *)
(***************************************************************************)
\* the database calls that are failed in this specification
AuthLoginLabels ==
    {"login.select", "login.update", "login.commit", "refresh_data.select",
     "load_collections.select"}

AuthTabLabels == {"load_following.select", "load_profile.followers"}

InitAuth ==
    /\ PwIdle
    /\ \E table \in {{UserA}, {UserA, UserBadHash}} :
           Holds([NewApp EXCEPT !.users = table])

NextAuth ==
    \/ \E u \in TypedUsernames, p \in TypedPasswords :
           Login(u, p, FailSets(AuthLoginLabels))
    \/ Logout
    \/ ShowRegister
    \/ BackToLogin
    \/ \E fn \in TypedNames, ln \in TypedNames, e \in TypedEmails, u \in TypedUsernames,
          p \in TypedPasswords :
           RegisterRejected(fn, ln, e, u, p)
    \/ \E e \in TypedEmails, u \in TypedUsernames, p \in Passwords,
          salt \in {Salt0, Salt1} :
           Register(<<"a">>, <<"a">>, e, u, p, salt, FailSets(RegisterLabels))
    \/ \E t \in Tabs : OnTabChanged(t, FailSets(AuthTabLabels))

SpecAuth == InitAuth /\ [][NextAuth]_vars

(***************************************************************************)
(* Accounts: registrations and logins over a users table that holds user   *)
(* a, user b, or user a and a row whose password is no salt:hash string.   *)
(***************************************************************************)
InitRegister ==
    /\ PwIdle
    /\ \E table \in {{UserA}, {UserB}, {UserA, UserBadHash}} :
           Holds([NewApp EXCEPT !.users = table])

NextRegister ==
    \/ \E u \in TypedUsernames, p \in TypedPasswords :
           Login(u, p, FailSets({"login.select"}))
    \/ Logout
    \/ ShowRegister
    \/ BackToLogin
    \/ \E fn \in TypedNames, ln \in TypedNames, e \in TypedEmails, u \in TypedUsernames,
          p \in TypedPasswords :
           RegisterRejected(fn, ln, e, u, p)
    \/ \E e \in TypedEmails, u \in TypedUsernames, p \in Passwords,
          salt \in {Salt0, Salt1} :
           Register(<<"a">>, <<"a">>, e, u, p, salt, FailSets({"register.select"}))

SpecRegister == InitRegister /\ [][NextRegister]_vars

(***************************************************************************)
(* The social tab: two registered users take turns at the application.     *)
(***************************************************************************)
\* text typed into the email field of the user search
TypedQueries == {<<>>, <<"@">>, <<"A">>, <<"_", "@">>}

SocialTabs == {"My Collections", "Social"}

InitSocial ==
    /\ PwIdle
    /\ Holds([NewApp EXCEPT !.users = {UserA, UserB}])

NextSocial ==
    \/ \E u \in {<<"a">>, <<"b">>}, p \in Passwords :
           Login(u, p, FailSets({"login.select", "load_following.select"}))
    \/ Logout
    \/ \E t \in SocialTabs : OnTabChanged(t, FailSets({"load_following.select"}))
    \/ \E q \in TypedQueries : SearchUsers(q, FailSets({"search_users.select"}))
    \/ FollowUser(FailSets({"follow_user.insert", "follow_user.commit"}))
    \/ \E c \in BOOLEAN :
           UnfollowUser(c, FailSets({"unfollow_user.delete", "unfollow_user.commit"}))

SpecSocial == InitSocial /\ [][NextSocial]_vars

(***************************************************************************)
(* The recommendations: user a is logged in and has the "Popular &         *)
(* Recommended" tab open, over each catalog and library of a small family. *)
(***************************************************************************)
\* the genres and the developers a game of the family can have
GameProfiles ==
    {[genres |-> {1, 2, 3}, developers |-> {1}],
     [genres |-> {4}, developers |-> {1, 2, 3}],
     [genres |-> {4}, developers |-> {4}]}

\* the purchases tables of the family: no rating at all, two games rated 5
\* by b, and ratings by a and b that give the games different averages
RatingTables ==
    {{},
     {[userid |-> 2, gameid |-> g, starrating |-> 5] : g \in 1..2},
     {[userid |-> 2, gameid |-> g, starrating |-> IF g % 2 = 1 THEN 5 ELSE 4]
          : g \in 1..RecGames}
         \cup {[userid |-> 1, gameid |-> 1, starrating |-> 2]}}

\* the application as App.__init__ leaves it, over a database in which user
\* a has the games owned in collection 1, user b every game in collection 2
RecStart(profile_of, owned, ratings) ==
    [NewApp EXCEPT
        !.users = {UserA, UserB},
        !.collection = {[collectionid |-> 1, userid |-> 1, name |-> <<"x">>],
                        [collectionid |-> 2, userid |-> 2, name |-> <<"x">>]},
        !.collectiongame = {<<1, g>> : g \in owned} \cup {<<2, g>> : g \in 1..RecGames},
        !.purchases = ratings,
        !.collection_seq = 2,
        !.videogame = 1..RecGames,
        !.names = PlainNames(1..RecGames, 1..4),
        !.gamegenre =
            {x \in (1..RecGames) \X (1..4) : x[2] \in profile_of[x[1]].genres},
        !.gamedeveloper =
            {x \in (1..RecGames) \X (1..4) : x[2] \in profile_of[x[1]].developers}]

\* user a logs in and selects the "Popular & Recommended" tab
InitRec ==
    /\ PwIdle
    /\ \E profile_of \in [1..RecGames -> GameProfiles],
          owned \in {o \in SUBSET (1..RecGames) : Cardinality(o) <= MaxOwned},
          ratings \in RatingTables :
           LET s0 == RecStart(profile_of, owned, ratings)
               s1 == login(s0, <<"a">>, "pw1", {})
               s2 == [s1 EXCEPT !.tab = "Popular & Recommended", !.msgs = {}]
           IN  Holds(on_tab_changed(s2, "Popular & Recommended", {}))

NextRec ==
    \/ \E t \in RecSubtabs : OnSubtabChanged(t, FailSets(RecLabels))
    \/ RefreshRecommendations(FailSets(RecLabels))

SpecRec == InitRec /\ [][NextRec]_vars

(***************************************************************************)
(* The whole application over a small database: every handler, with the    *)
(* database failing any call.  The notebook stays on the tab that was      *)
(* selected when the application was last used.                            *)
(***************************************************************************)
\* the catalog: game 1 on platform 1, of genre 1, by developer 1; user a
\* has platform 1.  Over it a database with nothing in the library
NewLibrary ==
    [NewApp EXCEPT
        !.users = {UserA},
        !.videogame = {1},
        !.gamegenre = {<<1, 1>>},
        !.gamedeveloper = {<<1, 1>>},
        !.gameplatform = {<<1, 1>>},
        !.names = PlainNames({1}, {1}),
        !.release = PlainRelease({<<1, 1>>}),
        !.userplatform = {<<1, 1>>}]

\* a database in use: a has the collections x, holding game 1, and y, has
\* rated game 1, follows b and has removed the platforms
UsedLibrary ==
    [NewLibrary EXCEPT
        !.users = {UserA, UserB},
        !.userplatform = {},
        !.collection = {[collectionid |-> 1, userid |-> 1, name |-> <<"x">>],
                        [collectionid |-> 2, userid |-> 1, name |-> <<"y">>]},
        !.collectiongame = {<<1, 1>>},
        !.purchases = {[userid |-> 1, gameid |-> 1, starrating |-> 3]},
        !.follows = {<<1, 2>>},
        !.collection_seq = 2]

\* the application was used once before: a logged in, selected a tab and
\* logged out
InitApp ==
    /\ PwIdle
    /\ \E s0 \in {NewLibrary, UsedLibrary}, t \in Tabs :
           LET s1 == login(s0, <<"a">>, "pw1", {})
               s2 == on_tab_changed([s1 EXCEPT !.tab = t, !.msgs = {}], t, {})
           IN  Holds(logout([s2 EXCEPT !.msgs = {}]))

\* the calls of login that are failed: those of the loads that no button of
\* a tab runs, and its own
AppLoginLabels ==
    {"login.select", "login.update", "login.commit", "refresh_data.select",
     "load_popular_90_days.select", "load_popular_followed.select",
     "load_new_releases.select"}

\* the database calls each handler makes itself; of the loads a handler ends
\* with, one is failed where no other button reaches it
AppCalls ==
    [create_collection |->
         {"create_collection.setval", "create_collection.insert", "create_collection.commit"},
     rename_collection |-> {"rename_collection.update", "rename_collection.commit"},
     delete_collection |->
         {"delete_collection.games", "delete_collection.collection",
          "delete_collection.commit"},
     play_random |-> {"play_random.select", "play_random.insert", "play_random.commit"},
     remove_game |-> {"remove_game.delete", "remove_game.commit"},
     add_to_collection |->
         {"add_to_collection.userplatform", "add_to_collection.gameplatform",
          "add_to_collection.collections", "add_to_collection.insert",
          "add_to_collection.commit"},
     rate_game |->
         {"rate_game.insert", "rate_game.commit", "load_profile.collections",
          "load_profile.followers", "load_profile.following"},
     play_game |-> {"play_game.insert", "play_game.commit"},
     follow_user |-> {"follow_user.insert", "follow_user.commit", "load_following.select"},
     unfollow_user |-> {"unfollow_user.delete", "unfollow_user.commit"}]

\* askinteger(minvalue=1, maxvalue=5): a number of the range, or None
MinRating == 1

MaxRating == 5

\* the names typed for a collection, the answers of the rating dialog and of
\* the duration dialogs
TypedCollectionNames == {<<>>, <<"x">>, <<"y">>}

RatingAnswers == {None, MaxRating}

\* askinteger(minvalue=1): the shortest session, or None
MinDuration == 1

DurationAnswers == {None, MinDuration}

NextApp ==
    \/ \E p \in Passwords : Login(<<"a">>, p, FailSets(AppLoginLabels))
    \/ Logout
    \/ ShowRegister
    \/ BackToLogin
    \/ RegisterRejected(<<"a">>, <<"a">>, <<"a", "b">>, <<"b">>, "pw2")
    \/ \E u \in {<<"a">>, <<"b">>} :
           Register(<<"a">>, <<"a">>, <<"b", "@", "b", ".", "c">>, u, "pw2", Salt1,
                    FailSets(RegisterLabels))
    \/ \E n \in TypedCollectionNames :
           CreateCollection(n, FailSets(AppCalls.create_collection))
    \/ \E n \in TypedCollectionNames :
           RenameCollection(n, FailSets(AppCalls.rename_collection))
    \/ \E c \in BOOLEAN :
           DeleteCollection(c, FailSets(AppCalls.delete_collection))
    \/ \E d \in DurationAnswers : PlayRandom(d, FailSets(AppCalls.play_random))
    \/ ViewCollectionDetails(FailSets({"load_games.select"}))
    \/ \E c \in BOOLEAN : RemoveGame(c, FailSets(AppCalls.remove_game))
    \/ Close(FailSets({"load_collections.select"}))
    \/ WindowDeleted
    \/ SearchGames(FailSets({"search_games.select"}))
    \/ \E a \in BOOLEAN, n \in TypedCollectionNames :
           AddToCollection(a, n, FailSets(AppCalls.add_to_collection))
    \/ \E r \in RatingAnswers :
           RateGame(r, FailSets(AppCalls.rate_game))
    \/ \E d \in DurationAnswers : PlayGame(d, FailSets(AppCalls.play_game))
    \/ \E q \in {<<>>, <<"@">>} : SearchUsers(q, FailSets({"search_users.select"}))
    \/ FollowUser(FailSets(AppCalls.follow_user))
    \/ \E c \in BOOLEAN : UnfollowUser(c, FailSets(AppCalls.unfollow_user))
    \/ LoadTopGames("rating", FailSets({"load_top_games.select"}))
    \/ \E t \in RecSubtabs : OnSubtabChanged(t, FailSets(RecLabels))
    \/ RefreshRecommendations(FailSets(RecLabels))

SpecApp == InitApp /\ [][NextApp]_vars

(***************************************************************************)
(* The process: App() is constructed, the frames are used, the window is   *)
(* closed.                                                                 *)
(***************************************************************************)
\* the call of connect_db that raises: none of them, the SSHTunnelForwarder
\* constructor, server.start(), or psycopg.connect
ConnectFailures == {"none", "SSHTunnelForwarder", "server.start", "psycopg.connect"}

\* App.connect_db: self.server is assigned when the constructor returns, the
\* tunnel runs when start() returns, self.conn is assigned when connect
\* returns; the except clause shows the message and returns False.  A
\* failure inside optimize_database is printed there and does not reach it.
connect_db(failing) ==
    [ok |-> failing = "none",
     server |-> IF failing = "SSHTunnelForwarder" THEN "None"
                ELSE IF failing = "server.start" THEN "new" ELSE "started",
     conn |-> IF failing = "none" THEN "open" ELSE "None",
     calls |-> IF failing \in {"SSHTunnelForwarder", "server.start"} THEN <<>>
               ELSE IF failing = "psycopg.connect" THEN <<"server.start">>
               ELSE <<"server.start", "psycopg.connect">>]

\* App.__init__: config.txt is read, connect_db is called, the frames are
\* built and the login frame is raised; either failure destroys the window
Construct(config_ok, failing) ==
    /\ window = "none"
    /\ LET c == connect_db(failing)
       IN  IF ~config_ok
           THEN /\ Put(Show(Cur, "error", "Config Error: Could not read config.txt."))
                /\ window' = "destroyed"
                /\ UNCHANGED <<server, conn, calls>>
           ELSE /\ server' = c.server
                /\ conn' = c.conn
                /\ calls' = c.calls
                /\ IF c.ok
                   THEN /\ Put(show_frame(Cur, "LoginFrame", {}))
                        /\ window' = "built"
                   ELSE /\ Put(Show(Cur, "error",
                                    "Connection Failed: Could not connect to database"))
                        /\ window' = "destroyed"

\* App.on_closing, bound to WM_DELETE_WINDOW of the root window
on_closing ==
    [conn |-> IF conn # "None" THEN "closed" ELSE conn,
     server |-> IF server # "None" THEN "stopped" ELSE server,
     calls |-> calls \o (IF conn # "None" THEN <<"conn.close">> ELSE <<>>)
                     \o (IF server # "None" THEN <<"server.stop">> ELSE <<>>)]

OnClosing ==
    /\ window = "built"
    /\ Put(Cur)
    /\ conn' = on_closing.conn
    /\ server' = on_closing.server
    /\ calls' = on_closing.calls
    /\ window' = "destroyed"

\* before App() is constructed: the users table holds user a
InitProcess ==
    /\ PwIdle
    /\ Shown([NewApp EXCEPT !.users = {UserA}, !.raised = "none"])
    /\ window = "none"
    /\ server = "None"
    /\ conn = "None"
    /\ calls = <<>>

\* the handlers of the frames run while the window exists
NextProcess ==
    \/ \E config_ok \in BOOLEAN, failing \in ConnectFailures : Construct(config_ok, failing)
    \/ OnClosing
    \/ \E u \in TypedUsernames, p \in TypedPasswords :
           window = "built" /\ Login(u, p, FailSets({"login.select"}))
    \/ window = "built" /\ Logout
    \/ \E t \in Tabs : window = "built" /\ OnTabChanged(t, {{}})
    \/ window = "built" /\ ShowRegister
    \/ window = "built" /\ BackToLogin
    \/ \E e \in TypedEmails, u \in TypedUsernames, p \in Passwords :
           window = "built" /\ Register(<<"a">>, <<"a">>, e, u, p, Salt0, {{}})

SpecProcess == InitProcess /\ [][NextProcess]_vars

(***************************************************************************)
(* One user after another at the same window: users a and b log in and     *)
(* out, select tabs and sub-tabs, search games and search users.           *)
(***************************************************************************)
\* a owns game 1 of a catalog of games that share its genres, has rated and
\* played it and follows b; b owns every game and has played game 2
HandoverStart ==
    [RecStart([g \in 1..RecGames |-> [genres |-> {1, 2, 3}, developers |-> {1}]], {1},
              {[userid |-> 1, gameid |-> 1, starrating |-> 5]})
     EXCEPT !.follows = {<<1, 2>>},
            !.plays = <<[userid |-> 1, gameid |-> 1, duration |-> 10],
                        [userid |-> 2, gameid |-> 2, duration |-> 3]>>]

InitHandover ==
    /\ PwIdle
    /\ Holds(HandoverStart)

NextHandover ==
    \/ \E up \in {<<(<<"a">>), "pw1">>, <<(<<"b">>), "pw2">>} : Login(up[1], up[2], {{}})
    \/ Logout
    \/ \E t \in Tabs : OnTabChanged(t, {{}})
    \/ \E t \in Subtabs : OnSubtabChanged(t, {{}})
    \/ SearchGames({{}})
    \/ SearchUsers(<<"@">>, {{}})

SpecHandover == InitHandover /\ [][NextHandover]_vars

(***************************************************************************)
(* Two owners: users a and b, each with a collection named x, take turns   *)
(* at renaming and deleting their collections.                             *)
(***************************************************************************)
InitOwner ==
    /\ PwIdle
    /\ Holds(HandoverStart)

NextOwner ==
    \/ \E up \in {<<(<<"a">>), "pw1">>, <<(<<"b">>), "pw2">>} : Login(up[1], up[2], {{}})
    \/ Logout
    \/ \E t \in Tabs : OnTabChanged(t, {{}})
    \/ \E n \in TypedCollectionNames :
           RenameCollection(n, FailSets(AppCalls.rename_collection))
    \/ \E c \in BOOLEAN :
           DeleteCollection(c, FailSets(AppCalls.delete_collection))

SpecOwner == InitOwner /\ [][NextOwner]_vars

(***************************************************************************)
(* The search tab: the two users take turns at rating the games.           *)
(***************************************************************************)
\* the database in use with a catalog of MaxGames games
SearchLibrary ==
    [UsedLibrary EXCEPT
        !.videogame = 1..MaxGames,
        !.gamegenre = (1..MaxGames) \X {1},
        !.gamedeveloper = (1..MaxGames) \X {1},
        !.gameplatform = (1..MaxGames) \X {1},
        !.names = PlainNames(1..MaxGames, {1}),
        !.release = PlainRelease((1..MaxGames) \X {1})]

InitSearch ==
    /\ PwIdle
    /\ LET s1 == login(SearchLibrary, <<"a">>, "pw1", {})
           s2 == on_tab_changed([s1 EXCEPT !.tab = "Search Games", !.msgs = {}],
                                "Search Games", {})
       IN  Holds(logout([s2 EXCEPT !.msgs = {}]))

NextSearch ==
    \/ \E up \in {<<(<<"a">>), "pw1">>, <<(<<"b">>), "pw2">>} :
           Login(up[1], up[2], FailSets({"login.commit"}))
    \/ Logout
    \/ SearchGames(FailSets({"search_games.select"}))
    \/ \E r \in {None, MinRating, MaxRating} :
           RateGame(r, FailSets({"rate_game.insert", "rate_game.commit",
                                 "search_games.select"}))

SpecSearch == InitSearch /\ [][NextSearch]_vars

(***************************************************************************)
(* The filters of the search tab over a catalog with names: user a fills   *)
(* in the entries and searches.                                            *)
(***************************************************************************)
\* game 1, "Ab", is on the platforms a (year 7, 5.00) and B (year 9, 10.00),
\* by the developers Ab and b, published by Ab, of the genres a and b; game
\* 2, "b", is on platform a (year 9, 7.50), by developer b, published by b,
\* of genre b; game 3, "x", has no row in any of these tables.  User a has
\* played game 1 once for 10 minutes, rated it 5 and game 2 3; user b has
\* played game 1 for 3 minutes
FindLibrary ==
    [NewApp EXCEPT
        !.users = {UserA, UserB},
        !.videogame = {1, 2, 3},
        !.names = [title |-> <<(<<"A", "b">>), <<"b">>, <<"x">>>>,
                   esrb_rating |-> <<(<<"x">>), <<"x">>, <<"x">>>>,
                   platform |-> <<(<<"a">>), <<"B">>>>,
                   company |-> <<(<<"A", "b">>), <<"b">>>>,
                   genre |-> <<(<<"a">>), <<"b">>>>],
        !.gameplatform = {<<1, 1>>, <<1, 2>>, <<2, 1>>},
        !.release = [x \in {<<1, 1>>, <<1, 2>>, <<2, 1>>} |->
                        IF x = <<1, 1>> THEN [year |-> 7, price |-> 500]
                        ELSE IF x = <<1, 2>> THEN [year |-> 9, price |-> 1000]
                        ELSE [year |-> 9, price |-> 750]],
        !.gamedeveloper = {<<1, 1>>, <<1, 2>>, <<2, 2>>},
        !.gamepublisher = {<<1, 1>>, <<2, 2>>},
        !.gamegenre = {<<1, 1>>, <<1, 2>>, <<2, 2>>},
        !.plays = <<[userid |-> 1, gameid |-> 1, duration |-> 10],
                    [userid |-> 2, gameid |-> 1, duration |-> 3]>>,
        !.purchases = {[userid |-> 1, gameid |-> 1, starrating |-> 5],
                       [userid |-> 1, gameid |-> 2, starrating |-> 3]}]

\* the texts typed into the entries of the search tab: every entry left
\* empty or filled in, and texts that int() and float() refuse or strip
FilterTexts ==
    [title : {<<>>, <<"a">>}, developer : {<<>>, <<"a">>}, publisher : {<<>>, <<"B">>},
     genre : {<<>>, <<"a">>}, platform : {<<>>, <<"a">>}, year : {<<>>, <<"7">>},
     price : {<<>>, <<"7", ".", "5">>}]
    \cup {[NoFilters EXCEPT !.year = <<"x">>],
          [NoFilters EXCEPT !.price = <<"x">>],
          [NoFilters EXCEPT !.year = <<"7", ".", "5">>, !.price = <<".">>],
          [NoFilters EXCEPT !.year = <<" ", "9">>, !.price = <<"1", "_", "0">>],
          [NoFilters EXCEPT !.price = <<"n", "a", "n">>],
          [NoFilters EXCEPT !.title = <<"b">>, !.price = <<"-", "i", "n", "f">>],
          [NoFilters EXCEPT !.title = <<"_">>],
          [NoFilters EXCEPT !.title = <<"%">>, !.developer = <<"A", "_">>]}

InitFind ==
    /\ PwIdle
    /\ LET s1 == login(FindLibrary, <<"a">>, "pw1", {})
       IN  Holds(on_tab_changed([s1 EXCEPT !.tab = "Search Games", !.msgs = {}],
                                "Search Games", {}))

NextFind ==
    \/ \E f \in FilterTexts :
           SearchFor(f, FailSets({"search_games.select"}))

SpecFind == InitFind /\ [][NextFind]_vars

(***************************************************************************)
(* Sorting the search results: user a searches, clicks the headings of the *)
(* tree and applies the options of the sort menu.                          *)
(***************************************************************************)
NextSort ==
    \/ \E f \in {NoFilters, [NoFilters EXCEPT !.developer = <<"a">>]} :
           SearchFor(f, FailSets({"search_games.select"}))
    \/ \E col \in visible_cols : SortColumn(col)
    \/ \E sort_option \in SortOptions : ApplySort(sort_option)

SpecSort == InitFind /\ [][NextSort]_vars

(***************************************************************************)
(* The collections list over databases with play sessions: user a logs    *)
(* in, creates and deletes collections.                                    *)
(***************************************************************************)
\* the longest plays table of the family
MaxSessions == 3

\* the rows a plays table of the family holds: a session by user a or b of
\* game 1 or 2, of 65 minutes when a plays game 1 and of 3 otherwise
PlayRows ==
    {[userid |-> u, gameid |-> g, duration |-> IF u = 1 /\ g = 1 THEN 65 ELSE 3] :
         u \in {1, 2}, g \in {1, 2}}

\* a database in which a's collection x holds the games held
ShelfStart(table, held) ==
    [NewApp EXCEPT
        !.users = {UserA, UserB},
        !.videogame = {1, 2},
        !.names = PlainNames({1, 2}, {1}),
        !.collection = {[collectionid |-> 1, userid |-> 1, name |-> <<"x">>]},
        !.collectiongame = {1} \X held,
        !.collection_seq = 1,
        !.plays = table]

InitShelf ==
    /\ PwIdle
    /\ \E n \in 0..MaxSessions : \E table \in [1..n -> PlayRows] :
           \E held \in SUBSET {1, 2} : Holds(ShelfStart(table, held))

NextShelf ==
    \/ Login(<<"a">>, "pw1", FailSets({"load_collections.select"}))
    \/ Logout
    \/ CreateCollection(<<"y">>, FailSets(AppCalls.create_collection))
    \/ \E c \in BOOLEAN : DeleteCollection(c, FailSets(AppCalls.delete_collection))

SpecShelf == InitShelf /\ [][NextShelf]_vars

(***************************************************************************)
(* The top games of the profile tab: user a selects the three sort modes   *)
(* over libraries of twelve games.                                         *)
(***************************************************************************)
\* what a user did with a game: the rating given (None for none) and the
\* minutes played; the kinds of the family
GameKinds ==
    {[starrating |-> None, minutes |-> 0], [starrating |-> None, minutes |-> 10],
     [starrating |-> 3, minutes |-> 0], [starrating |-> 5, minutes |-> 20],
     [starrating |-> 4, minutes |-> 30], [starrating |-> 1, minutes |-> 100]}

\* what user a did with the games 1 to 9: games 1 and 2 alike, game 3 rated
\* lower and played longer, game 4 never rated, games 1 and 8 with the same
\* product of rating and minutes
FixedKinds ==
    <<[starrating |-> 5, minutes |-> 20], [starrating |-> 5, minutes |-> 20],
      [starrating |-> 4, minutes |-> 30], [starrating |-> None, minutes |-> 7],
      [starrating |-> 3, minutes |-> 1], [starrating |-> 5, minutes |-> 2],
      [starrating |-> 2, minutes |-> 40], [starrating |-> 1, minutes |-> 100],
      [starrating |-> 4, minutes |-> 5]>>

\* the games of the family that are drawn
DrawnGames == 10..12

\* a database of twelve games in which user a did with each game what kind
\* says, game 1 played in two sessions; user b has rated game 10 and played
\* game 11
TopStart(kind, tie) ==
    LET played == AscSeq({g \in DOMAIN kind : kind[g].minutes > 0})
    IN  [NewApp EXCEPT
            !.users = {UserA, UserB},
            !.videogame = DOMAIN kind,
            !.names = PlainNames(DOMAIN kind, {1}),
            !.tie_order = tie,
            !.purchases =
                {[userid |-> 1, gameid |-> g, starrating |-> kind[g].starrating] :
                     g \in {x \in DOMAIN kind : kind[x].starrating # None}}
                \cup {[userid |-> 2, gameid |-> 10, starrating |-> 5]},
            !.plays =
                [i \in DOMAIN played |->
                    [userid |-> 1, gameid |-> played[i],
                     duration |-> IF played[i] = 1 THEN kind[1].minutes - 10
                                  ELSE kind[played[i]].minutes]]
                \o <<[userid |-> 1, gameid |-> 1, duration |-> 10],
                     [userid |-> 2, gameid |-> 11, duration |-> 500]>>]

\* user a has logged in and selected the profile tab
InitTop ==
    /\ PwIdle
    /\ \E drawn \in [DrawnGames -> GameKinds], tie \in {"asc", "desc"} :
           LET kind == [g \in DOMAIN FixedKinds \cup DrawnGames |->
                           IF g \in DrawnGames THEN drawn[g] ELSE FixedKinds[g]]
               s1 == login(TopStart(kind, tie), <<"a">>, "pw1", {})
           IN  Holds(on_tab_changed([s1 EXCEPT !.tab = "My Profile", !.msgs = {}],
                                    "My Profile", {}))

NextTop ==
    \E sort_method \in {"rating", "playtime", "combined"} :
        LoadTopGames(sort_method, FailSets({"load_top_games.select"}))

SpecTop == InitTop /\ [][NextTop]_vars

(***************************************************************************)
(* The followed-users list: users a and b take turns at following and      *)
(* unfollowing and at looking at the popular tab, over a catalog of more   *)
(* games than the list holds; user c plays and is followed, and never logs *)
(* in.                                                                     *)
(***************************************************************************)
\* the games of the catalog
FollowedGames == 22

UserC ==
    [userid |-> 3, username |-> <<"c">>, email |-> <<"c", "@", "b", ".", "c">>,
     password |-> hash_password("pw1", Salt1), lastaccessdate |-> "NULL"]

\* a played every game for ten minutes and games 1 and 2 once more, b played
\* games 1 and 22, c played games 2, 3 and 22
FollowedSessions0 ==
    [g \in 1..FollowedGames |-> [userid |-> 1, gameid |-> g, duration |-> 10]]
    \o <<[userid |-> 2, gameid |-> 1, duration |-> 7],
         [userid |-> 2, gameid |-> 22, duration |-> 61],
         [userid |-> 3, gameid |-> 3, duration |-> 5],
         [userid |-> 3, gameid |-> 22, duration |-> 120],
         [userid |-> 1, gameid |-> 1, duration |-> 1],
         [userid |-> 1, gameid |-> 2, duration |-> 600],
         [userid |-> 3, gameid |-> 2, duration |-> 15]>>

FollowedStart(edges, tie) ==
    [NewApp EXCEPT
        !.users = {UserA, UserB, UserC},
        !.videogame = 1..FollowedGames,
        !.names = PlainNames(1..FollowedGames, {1}),
        !.tie_order = tie,
        !.follows = edges,
        !.plays = FollowedSessions0]

\* b follows c or nobody
InitFollowed ==
    /\ PwIdle
    /\ \E edges \in {{}, {<<2, 3>>}}, tie \in {"asc", "desc"} :
           Holds(FollowedStart(edges, tie))

FollowedTabs == {"Social", "Popular & Recommended"}

\* the search for "a" finds user a alone
NextFollowed ==
    \/ \E up \in {<<(<<"a">>), "pw1">>, <<(<<"b">>), "pw2">>} : Login(up[1], up[2], {{}})
    \/ Logout
    \/ \E t \in FollowedTabs :
           OnTabChanged(t, FailSets({"load_popular_followed.select"}))
    \/ SearchUsers(<<"a">>, {{}})
    \/ FollowUser({{}})
    \/ UnfollowUser(TRUE, {{}})

SpecFollowed == InitFollowed /\ [][NextFollowed]_vars

(***************************************************************************)
(* The profile tab: two users take turns at creating and deleting          *)
(* collections, following and unfollowing, and looking at their profile.   *)
(***************************************************************************)
ProfileTabs == {"My Collections", "Social", "My Profile"}

\* the calls of load_profile
ProfileCalls ==
    {"load_profile.collections", "load_profile.followers", "load_profile.following"}

InitProfile ==
    /\ PwIdle
    /\ Holds([NewApp EXCEPT !.users = {UserA, UserB}])

NextProfile ==
    \/ \E up \in {<<(<<"a">>), "pw1">>, <<(<<"b">>), "pw2">>} :
           Login(up[1], up[2], FailSets(ProfileCalls))
    \/ Logout
    \/ \E t \in ProfileTabs : OnTabChanged(t, FailSets(ProfileCalls))
    \/ CreateCollection(<<"x">>, FailSets({"create_collection.insert"}))
    \/ DeleteCollection(TRUE, FailSets({"delete_collection.commit"}))
    \/ SearchUsers(<<"@">>, {{}})
    \/ FollowUser(FailSets({"follow_user.insert"}))
    \/ UnfollowUser(TRUE, FailSets({"unfollow_user.commit"}))

SpecProfile == InitProfile /\ [][NextProfile]_vars

(***************************************************************************)
(* The password helpers on their own: a stored string is either made by    *)
(* hash_password or is any string a users row could hold.                  *)
(***************************************************************************)
InitPw ==
    /\ pw_stored \in SeqsUpTo(PwChars, MaxStrLen)
    /\ pw_plain = "none"
    /\ pw_given = "none"
    /\ pw_result = "none"
    /\ Holds(NewApp)

HashPassword(password, salt) ==
    /\ pw_stored' = hash_password(password, salt)
    /\ pw_plain' = password
    /\ pw_given' = "none"
    /\ pw_result' = "none"
    /\ UNCHANGED <<app_vars, catalog_vars, proc_vars>>

CheckPassword(provided) ==
    /\ pw_given' = provided
    /\ pw_result' = check_password(pw_stored, provided)
    /\ UNCHANGED <<pw_stored, pw_plain>>
    /\ UNCHANGED <<app_vars, catalog_vars, proc_vars>>

NextPw ==
    \/ \E p \in Passwords, salt \in Salts : HashPassword(p, salt)
    \/ \E q \in Passwords : CheckPassword(q)

SpecPw == InitPw /\ [][NextPw]_vars

(***************************************************************************)
(* C2.  hash_password / check_password.                                    *)
(***************************************************************************)
\* a field bytes.fromhex accepts, stated without running it: its characters
\* other than whitespace are hex digits, an even number of them, and each
\* odd-numbered one is directly followed by its partner
FieldDecodable(f) ==
    LET ns == {i \in 1..Len(f) : f[i] # " "}
        rank(i) == Cardinality({j \in ns : j <= i})
    IN  /\ \A i \in ns : f[i] \in HexDigits
        /\ Cardinality(ns) % 2 = 0
        /\ \A i \in ns : rank(i) % 2 = 1 => (i + 1) \in ns

\* exactly one ':' with a decodable field on each side
Decodable(s) ==
    /\ Cardinality({i \in 1..Len(s) : s[i] = ":"}) = 1
    /\ LET i == CHOOSE j \in 1..Len(s) : s[j] = ":"
       IN  FieldDecodable(SubSeq(s, 1, i - 1)) /\ FieldDecodable(SubSeq(s, i + 1, Len(s)))

\* exactly two fields of hex digits only, separated by one ':'
TwoHexFields(s) ==
    /\ Cardinality({i \in 1..Len(s) : s[i] = ":"}) = 1
    /\ \A i \in 1..Len(s) : s[i] \in HexDigits \cup {":"}

\* the round trip: checking what hash_password stored gives True for the
\* password hashed and False for any other
C2_RoundTrip ==
    (pw_plain # "none" /\ pw_result # "none") => pw_result = PyBool(pw_given = pw_plain)

\* C2 as amended: the round trip holds, and check_password returns False
\* (and does not raise) for every stored string that is not two fields
\* separated by one ':' that bytes.fromhex decodes (hex digit pairs,
\* whitespace allowed between pairs)
C2_CheckPassword ==
    /\ C2_RoundTrip
    /\ (pw_result # "none" /\ ~Decodable(pw_stored)) => pw_result = "False"

\* C2 witness: a stored string with one ':' and a field fromhex rejects has
\* been checked and refused
C2_Witness ==
    /\ pw_result = "False"
    /\ Cardinality({i \in 1..Len(pw_stored) : pw_stored[i] = ":"}) = 1
    /\ ~Decodable(pw_stored)

\* C2 as claimed: the round trip holds, and check_password returns False for
\* every stored string that is not exactly two hex fields separated by one ':'
C2_Original ==
    /\ C2_RoundTrip
    /\ (pw_result # "none" /\ ~TwoHexFields(pw_stored)) => pw_result = "False"

(***************************************************************************)
(* C1.  The main view is gated by a verified login.                        *)
(***************************************************************************)
\* the messages with which login refuses
LoginFailures ==
    {<<"error", "Please enter both username and password.">>,
     <<"error", "Invalid username or password.">>,
     <<"error", "Database Error: An error occurred">>}

\* whenever the main frame is raised, current_user_id is the id of a stored
\* user whose salt:hash verifies against the password of the last login
C1_Gate ==
    raised = "MainAppFrame" =>
        \E u \in users :
            /\ u.userid = current_user_id
            /\ check_password(u.password, login_password) = "True"

\* a step in which login refused leaves current_user_id as it was and the
\* login frame raised
C1_FailedLogin ==
    (msgs' \cap LoginFailures # {}) =>
        (current_user_id' = current_user_id /\ raised' = "LoginFrame")

\* C1: in every reachable state the main view is raised only for a user whose
\* stored salt:hash verified against the password of the most recent login,
\* and a failed login changes neither current_user_id nor the raised frame
C1_AuthGate == [](C1_Gate) /\ [][C1_FailedLogin]_vars

\* C1 witness: a login with a verified password has raised the main view
C1_Witness ==
    /\ raised = "MainAppFrame"
    /\ current_user_id = 1
    /\ login_password = "pw1"
    /\ <<"info", "Welcome">> \in msgs

(***************************************************************************)
(* C3.  No self-follow.                                                    *)
(***************************************************************************)
\* C3: after any sequence of search_users, follow_user, unfollow_user,
\* logout and login, no edge of follows has the same user as follower and
\* followed
C3_NoSelfFollow == \A f \in follows : f[1] # f[2]

\* a user followed somebody out of a search they made themselves
C3_Followed ==
    /\ <<"info", "You are now following">> \in msgs
    /\ <<current_user_id, current_user_id>> \notin follows

(***************************************************************************)
(* C8, C9, C10.  The recommendations.                                      *)
(***************************************************************************)
\* the recommendations were filled by the handler that just ran
Listed == rec_path \in {"primary", "fallback"}

ListedGames == {recommendations_tree[i].gameid : i \in DOMAIN recommendations_tree}

\* the games in any collection of the current user
Owned ==
    {g \in videogame :
        \E c \in collection :
            c.userid = current_user_id /\ <<c.collectionid, g>> \in collectiongame}

\* C8: no game that belongs to a collection of the current user is in the
\* list load_recommendations produced, on the primary path and on the
\* fallback path
C8_NoOwnedGame == Listed => ListedGames \cap Owned = {}

\* the fallback path listed a game while the user owns another game that is
\* rated as highly
C8_Witness ==
    /\ rec_path = "fallback"
    /\ recommendations_tree # <<>>
    /\ \E g \in Owned :
           /\ \E pu \in purchases : pu.gameid = g
           /\ \A pu \in purchases : pu.gameid = g => pu.starrating >= 4

\* the number of owned games that have key k in rel
Occurrences(rel, k) == Cardinality({g \in Owned : <<g, k>> \in rel})

\* T is a top-3 of the keys of rel by occurrence among the owned games: at
\* most three keys, all three unless fewer occur, none left out that occurs
\* more often than one taken
IsTop3(T, rel) ==
    LET occurring == {k \in {x[2] : x \in rel} : Occurrences(rel, k) > 0}
    IN  /\ T \subseteq occurring
        /\ Cardinality(T) <= 3
        /\ Cardinality(T) < 3 => T = occurring
        /\ \A t \in T : \A k \in occurring \ T :
               Occurrences(rel, t) >= Occurrences(rel, k)

\* C9: on the primary path the score of each listed game is 3 if it has one
\* of the user's top-3 genres plus 3 if it has one of the user's top-3
\* developers, so it is 3 or 6, and 6 for a game matching both
C9_Score ==
    rec_path = "primary" =>
        /\ IsTop3(rec_genres, gamegenre)
        /\ IsTop3(rec_developers, gamedeveloper)
        /\ \A i \in DOMAIN recommendations_tree :
               LET r == recommendations_tree[i]
                   genre == \E k \in rec_genres : <<r.gameid, k>> \in gamegenre
                   developer == \E k \in rec_developers : <<r.gameid, k>> \in gamedeveloper
               IN  /\ r.score = (IF genre THEN 3 ELSE 0) + (IF developer THEN 3 ELSE 0)
                   /\ r.score \in {3, 6}
                   /\ (genre /\ developer) => r.score = 6

\* the user owns games of more than three genres, one of which was left out
\* of the top 3, and a game matching a top genre and a top developer is listed
C9_Witness ==
    /\ rec_path = "primary"
    /\ \E k \in 1..4 : Occurrences(gamegenre, k) > 0 /\ k \notin rec_genres
    /\ \E i \in DOMAIN recommendations_tree : recommendations_tree[i].score = 6

\* row a ranks above row b: a higher score, or the same score and a higher
\* average rating
RanksAbove(a, b) ==
    \/ a.score > b.score
    \/ a.score = b.score /\ b.avg_rating[1] * a.avg_rating[2] < a.avg_rating[1] * b.avg_rating[2]

\* C10: the list is ranked by score, ties broken by average rating: a row
\* that ranks above another is listed before it
C10_Ranked ==
    Listed =>
        \A i, j \in DOMAIN recommendations_tree :
            RanksAbove(recommendations_tree[i], recommendations_tree[j]) => i < j

(***************************************************************************)
(* C4.  Ratings.                                                           *)
(***************************************************************************)
\* at most one rating row per (user, game), each rating from 1 to 5
C4_OneRow ==
    /\ \A p, q \in purchases : (p.userid = q.userid /\ p.gameid = q.gameid) => p = q
    /\ \A p \in purchases : p.starrating \in 1..5

\* a step that rated a game replaced the user's row for it, or added the
\* row where there was none; any other step leaves the ratings alone
C4_Step ==
    IF <<"info", "Set rating">> \in msgs'
    THEN \E g \in videogame, r \in 1..5 :
             LET old == {p \in purchases : p.userid = current_user_id /\ p.gameid = g}
             IN  /\ purchases' = (purchases \ old)
                        \cup {[userid |-> current_user_id, gameid |-> g, starrating |-> r]}
                 /\ Cardinality(purchases') =
                        Cardinality(purchases) + (IF old = {} THEN 1 ELSE 0)
    ELSE purchases' = purchases

\* C4: after any sequence of rate_game calls by any users there is at most
\* one rating row per (user, game); rating a game already rated replaces the
\* stored rating and adds no row; every stored rating is from 1 to 5
C4_Ratings == [](C4_OneRow) /\ [][C4_Step]_vars

\* user a, whose rating of game 1 was 3, has rated it 5, and user b has
\* rated it as well: two rows
C4_Witness ==
    /\ <<"info", "Set rating">> \in msgs
    /\ current_user_id = 1
    /\ purchases = {[userid |-> 1, gameid |-> 1, starrating |-> 5],
                    [userid |-> 2, gameid |-> 1, starrating |-> 1]}

(***************************************************************************)
(* C5.  Play sessions.                                                     *)
(***************************************************************************)
\* a handler logged a play session
PlayLogged(m) ==
    <<"info", "Logged play session">> \in m \/ <<"info", "Logged a random game">> \in m

\* every step keeps the rows of plays as they are; a successful play_game or
\* play_random adds one row, of the current user, of at least one minute,
\* and nothing else adds a row
C5_Step ==
    /\ Len(plays') >= Len(plays)
    /\ SubSeq(plays', 1, Len(plays)) = plays
    /\ IF PlayLogged(msgs')
       THEN /\ Len(plays') = Len(plays) + 1
            /\ plays'[Len(plays')].userid = current_user_id
            /\ plays'[Len(plays')].duration >= 1
       ELSE plays' = plays

C6_RolledBack ==
    /\ tx # "inerror"
    /\ dberr => \E m \in msgs : m[1] = "error"

\* the SELECT of refresh_data or a load after it failed while logging in
C6_Witness ==
    /\ dberr
    /\ tx # "inerror"
    /\ <<"info", "Welcome">> \in msgs
    /\ <<"error", "Failed to load collections">> \in msgs

(***************************************************************************)
(* C7.  Uniqueness violations.                                             *)
(***************************************************************************)
\* the handler, leaving the state r, left collections, memberships and
\* follow edges as they were, showed the message and left no transaction open
Refused(r, text) ==
    /\ r.collection = collection
    /\ r.collectiongame = collectiongame
    /\ r.follows = follows
    /\ <<"error", text>> \in r.msgs
    /\ r.tx = "idle"

\* the current user has a collection of that name
HasName(n) == \E c \in collection : c.userid = current_user_id /\ c.name = n

\* another collection of the current user than the one of id has that name
OtherHasName(n, id) ==
    \E c \in collection : c.userid = current_user_id /\ c.name = n /\ c.collectionid # id

C7_Create ==
    \A n \in TypedCollectionNames \ {<<>>} :
        (OnTab("My Collections") /\ HasName(n))
            => Refused(create_collection(Cur, n, {}),
                       "A collection with this name already exists.")

C7_Follow ==
    \A user_id \in search_tree :
        (OnTab("Social") /\ <<current_user_id, user_id>> \in follows)
            => Refused(follow_user(Cur, user_id, {}), "You are already following")

C7_Add ==
    \A row \in search_results, n \in TypedCollectionNames \ {<<>>} :
        (/\ OnTab("Search Games")
         /\ \E c \in collection :
                /\ c.userid = current_user_id
                /\ c.name = n
                /\ <<c.collectionid, row.gameid>> \in collectiongame)
            => Refused(add_to_collection(Cur, row, TRUE, n, {}),
                       "is already in that collection.")

\* C7 as stated: in every state the application reaches, create_collection
\* or rename_collection with a name the same user already has, follow_user
\* on a user already followed and add_to_collection of a game already in the
\* chosen collection leave the stored collections, memberships and follow
\* edges as they were, show the specific message and leave a clean
\* transaction
C7_Original ==
    /\ C7_Create
    /\ \A row \in coll_tree, n \in TypedCollectionNames \ {<<>>} :
           (OnTab("My Collections") /\ HasName(n))
               => Refused(rename_collection(Cur, row, n, {}),
                          "A collection with this name already exists.")
    /\ C7_Follow
    /\ C7_Add

\* C7 as amended: the same, where rename_collection uses a name that another
\* collection of the same user has; renaming a collection to the name it
\* has is carried out and shows no message
C7_Graceful ==
    /\ C7_Create
    /\ \A row \in coll_tree, n \in TypedCollectionNames \ {<<>>} :
           OnTab("My Collections")
               => IF OtherHasName(n, row.collectionid)
                  THEN Refused(rename_collection(Cur, row, n, {}),
                               "A collection with this name already exists.")
                  ELSE rename_collection(Cur, row, n, {}).msgs = {}
    /\ C7_Follow
    /\ C7_Add

\* a name was refused while the user has both collections
C7_Witness ==
    /\ <<"error", "A collection with this name already exists.">> \in msgs
    /\ tx = "idle"
    /\ Cardinality({c \in collection : c.userid = current_user_id}) = 2

FilterOrder == <<"title", "developer", "publisher", "genre", "platform", "year", "price">>

\* the entry is filled in and, for year and price, parses as a number
Applies(f, entry) ==
    /\ f[entry] # <<>>
    /\ entry = "year" => ParseInt(f.year).ok
    /\ entry = "price" => ParseFloat(f.price).ok

\* the predicate and the parameter that belong to an entry
PredicateOf(entry) ==
    CASE entry = "title" -> <<"g.title ILIKE", "%s">>
      [] entry = "developer" -> <<"dev.name ILIKE", "%s">>
      [] entry = "publisher" -> <<"pub.name ILIKE", "%s">>
      [] entry = "genre" -> <<"gen.name ILIKE", "%s">>
      [] entry = "platform" -> <<"p.name ILIKE", "%s">>
      [] entry = "year" -> <<"EXTRACT(YEAR FROM gp.releasedate) =", "%s">>
      [] entry = "price" -> <<"gp.price <=", "%s">>

ParameterOf(f, entry) ==
    IF entry = "year" THEN NumParam(ParseInt(f.year).val, 1)
    ELSE IF entry = "price"
         THEN NumParam(ParseFloat(f.price).val[1], ParseFloat(f.price).val[2])
         ELSE TextParam(<<"%">> \o f[entry] \o <<"%">>)

\* C12: the statement search_games executes holds, after the two user-id
\* parameters, exactly one predicate and one parameter for each entry that is
\* filled in (and, for year and price, parses as a number), in the order of
\* the entries and nothing for the others, so that the placeholders of the
\* statement are as many as its parameters
C12_Query ==
    search_query.sql # <<>> =>
        LET applied == SelectSeq(FilterOrder, LAMBDA entry : Applies(filters, entry))
        IN  /\ Placeholders(search_query.sql) = Len(search_query.params)
            /\ Len(search_query.params) = 2 + Len(applied)
            /\ search_query.params[1] = NumParam(current_user_id, 1)
            /\ search_query.params[2] = NumParam(current_user_id, 1)
            /\ \A i \in DOMAIN applied :
                   search_query.params[2 + i] = ParameterOf(filters, applied[i])
            /\ search_query.sql =
                   base_sql
                   \o JoinAnd([i \in DOMAIN applied |-> PredicateOf(applied[i])])
                   \o <<"GROUP BY g.gameid, g.title, g.esrb_rating, pu.starrating",
                        "ORDER BY g.title ASC, minreleasedate ASC">>

\* all seven filters applied, and a game found
C12_Witness ==
    /\ Len(search_query.params) = 9
    /\ search_results # {}
    /\ msgs = {}

\* t occurs in text as a contiguous substring, ignoring case
Contains(text, t) ==
    \E i \in 1..(Len(text) - Len(t) + 1) :
        SubSeq(LowerText(text), i, i + Len(t) - 1) = LowerText(t)

\* a search that the database answered
Searched == search_query.sql # <<>> /\ <<"error", "Failed to search games">> \notin msgs

\* C13: with the year and price entries not applied, a game is listed exactly
\* when every string filter that is filled in occurs, ignoring case, as a
\* contiguous substring of the game's title or of one of its developer,
\* publisher, genre or platform names
C13_Substring ==
    (Searched /\ ~YearFilter(filters) /\ ~PriceFilter(filters)) =>
        \A g \in videogame :
            (\E row \in search_results : row.gameid = g)
                <=> /\ filters.title # <<>> => Contains(NameOf(names.title, g), filters.title)
                    /\ filters.developer # <<>> =>
                           \E x \in gamedeveloper :
                               x[1] = g /\ Contains(names.company[x[2]], filters.developer)
                    /\ filters.publisher # <<>> =>
                           \E x \in gamepublisher :
                               x[1] = g /\ Contains(names.company[x[2]], filters.publisher)
                    /\ filters.genre # <<>> =>
                           \E x \in gamegenre :
                               x[1] = g /\ Contains(names.genre[x[2]], filters.genre)
                    /\ filters.platform # <<>> =>
                           \E x \in gameplatform :
                               x[1] = g /\ Contains(names.platform[x[2]], filters.platform)

\* the names associated with game g through the rows of an association table
Associated(rows, f, g) == {f[x[2]] : x \in {y \in rows : y[1] = g}}

\* C14: a search lists at most one row for a game id, and the platform,
\* developer, publisher and genre fields of the row are the comma-joined
\* lists of all the distinct names associated with the game, whatever the
\* filters
C14_Grouped ==
    Searched =>
        /\ \A r, q \in search_results : r.gameid = q.gameid => r = q
        /\ \A r \in search_results :
               /\ r.platforms = STRING_AGG(Associated(gameplatform, names.platform, r.gameid))
               /\ r.developers = STRING_AGG(Associated(gamedeveloper, names.company, r.gameid))
               /\ r.publishers = STRING_AGG(Associated(gamepublisher, names.company, r.gameid))
               /\ r.genres = STRING_AGG(Associated(gamegenre, names.genre, r.gameid))

\* C15: the playtime a search shows for a game is the sum of the durations
\* of the current user's play sessions of the game
C15_Playtime ==
    Searched =>
        \A r \in search_results :
            r.totalplaytime =
                SumDurations(plays, {i \in 1..Len(plays) :
                                        /\ plays[i].userid = current_user_id
                                        /\ plays[i].gameid = r.gameid})

\* the row of the search results shown for a game
RowOf(g) == CHOOSE row \in search_results : row.gameid = g

\* the row has a value in the column
HasValue(col, row) ==
    IF col = "Price" THEN row.minprice # NoPrice
    ELSE IF col = "Year" THEN row.releaseyear # None
    ELSE IF col = "My Rating" THEN row.starrating # None
    ELSE IF col = "My Playtime" THEN TRUE
    ELSE SortText(col, row) # LowerText(CellText(NullText))

\* the key of row r is strictly below the key of row q: as numbers in the
\* numeric columns, as lower-cased text in the others
KeyBelow(col, r, q) ==
    IF col \in NumericCols THEN SortNumber(col, r) < SortNumber(col, q)
    ELSE LexLess(SortText(col, r), SortText(col, q))

\* the order shows the rows that have a value in the column in
\* non-decreasing order of the key, non-increasing when reversed
InOrder(col, reverse, order) ==
    \A i, j \in DOMAIN order :
        (i < j /\ HasValue(col, RowOf(order[i])) /\ HasValue(col, RowOf(order[j]))) =>
            IF reverse THEN ~KeyBelow(col, RowOf(order[i]), RowOf(order[j]))
            ELSE ~KeyBelow(col, RowOf(order[j]), RowOf(order[i]))

\* the handler left the database and the rows alone and only permuted them
OnlyPermuted(r) ==
    /\ r.tx = tx /\ r.plays = plays /\ r.purchases = purchases
    /\ r.collection = collection /\ r.collectiongame = collectiongame
    /\ r.search_results = search_results
    /\ Len(r.search_order) = Len(search_order)
    /\ {r.search_order[i] : i \in DOMAIN r.search_order}
           = {search_order[i] : i \in DOMAIN search_order}

\* C16: sort_column and apply_sort leave the database and the rows alone and
\* show a permutation of the rows in non-decreasing order of the key of the
\* chosen column, non-increasing when reversed, comparing Price, Year,
\* My Playtime and My Rating as numbers and the other columns as text
\* without regard to case
C16_Sorted ==
    OnTab("Search Games") =>
        /\ \A col \in visible_cols \cup {"Genres"}, reverse \in BOOLEAN :
               /\ OnlyPermuted(sort_column(Cur, col, reverse))
               /\ InOrder(col, reverse, sort_column(Cur, col, reverse).search_order)
        /\ \A sort_option \in SortOptions :
               /\ OnlyPermuted(apply_sort(Cur, sort_option))
               /\ InOrder(IF sort_option \in {"Price ASC", "Price DESC"} THEN "Price"
                          ELSE IF sort_option \in {"Genre ASC", "Genre DESC"} THEN "Genres"
                          ELSE IF sort_option \in {"Year ASC", "Year DESC"} THEN "Year"
                          ELSE "Title",
                          sort_option \in {"Title DESC", "Price DESC", "Genre DESC",
                                           "Year DESC"},
                          apply_sort(Cur, sort_option).search_order)

\* the sum of the durations of the sessions of user uid at the games G
Played(uid, G) ==
    SumDurations(plays, {i \in 1..Len(plays) :
                            plays[i].userid = uid /\ plays[i].gameid \in G})

\* C17: while a user is logged in, every row of the collections list is a
\* collection of that user and shows the number of distinct games in it and, as HH:MM, the sum
\* of the durations of that user's play sessions of those games (00:00 when
\* there is none); sessions of other users and of games outside the
\* collection add nothing
C17_Collections ==
    current_user_id # None =>
        \A row \in coll_tree :
            LET games == {g \in videogame : <<row.collectionid, g>> \in collectiongame}
            IN  /\ \E c \in collection :
                       /\ c.collectionid = row.collectionid
                       /\ c.userid = current_user_id
                       /\ c.name = row.name
                /\ row.gamecount = Cardinality(games)
                /\ row.playtime_str = format_duration(Played(current_user_id, games))
                /\ Played(current_user_id, games) = 0 =>
                       row.playtime_str = <<"0", "0", ":", "0", "0">>

\* a's collection of one game is listed with the 65 minutes a played it,
\* while b has played the same game and a has played the game outside it
C17_Witness ==
    /\ current_user_id = 1
    /\ \E row \in coll_tree :
           /\ row.gamecount = 1
           /\ row.playtime_str = <<"0", "1", ":", "0", "5">>
           /\ <<row.collectionid, 1>> \in collectiongame
    /\ \E i, j \in DOMAIN plays :
           /\ plays[i].userid = 2 /\ plays[i].gameid = 1
           /\ plays[j].userid = 1 /\ plays[j].gameid = 2

\* the game with the title of a row of the top-10 tree
Titled(title) == CHOOSE g \in videogame : names.title[g] = title

\* what the current user did with game g: the rating given (None for none)
\* and the minutes played in all sessions
RatingOf(g) ==
    IF \E pu \in purchases : pu.userid = current_user_id /\ pu.gameid = g
    THEN (CHOOSE pu \in purchases : pu.userid = current_user_id /\ pu.gameid = g).starrating
    ELSE None

MinutesOf(g) == Played(current_user_id, {g})

\* the score of game g in the selected mode; None, a rating or no minutes
\* count 0
ScoreOf(g) ==
    IF top_sort_var = "rating" THEN RatingOf(g)
    ELSE IF top_sort_var = "playtime" THEN MinutesOf(g)
    ELSE RatingOf(g) * MinutesOf(g)

\* the games the selected mode ranks: rated, played, rated or played
Ranked(g) ==
    LET played == \E i \in DOMAIN plays :
                      plays[i].userid = current_user_id /\ plays[i].gameid = g
    IN  IF top_sort_var = "rating" THEN RatingOf(g) # None
        ELSE IF top_sort_var = "playtime" THEN played
        ELSE RatingOf(g) # None \/ played

CountsMatch ==
    /\ profile_labels.collections
           = Cardinality({c \in collection : c.userid = current_user_id})
    /\ profile_labels.followers
           = Cardinality({f \in follows : f[2] = current_user_id})
    /\ profile_labels.following
           = Cardinality({f \in follows : f[1] = current_user_id})

\* the profile tab is shown to a user
ProfileShown == MainActive /\ tab = "My Profile"

\* a step that ends with the profile tab shown and no failure of
\* load_profile reported ends with the counts right, when it selects the
\* tab, logs a user in, or leaves the tab selected with its counts right
C19_Step ==
    (/\ ProfileShown'
     /\ <<"error", "Failed to load profile">> \notin msgs'
     /\ ~ProfileShown \/ CountsMatch)
        => CountsMatch'

\* C19: whenever the profile tab is shown after any sequence of creating
\* and deleting collections, following and unfollowing by either user, the
\* counts of collections, followers and following equal the rows of the
\* current user in collection and follows
C19_Counts == [][C19_Step]_vars

\* b looks at the profile after a has followed b and b has created a
\* collection
C19_Witness ==
    /\ ProfileShown
    /\ current_user_id = 2
    /\ follows = {<<1, 2>>}
    /\ profile_labels = [collections |-> 1, followers |-> 1, following |-> 0]


(***************************************************************************)
(* C20.  The list popular among followed users.                            *)
(***************************************************************************)
PopularShown == MainActive /\ tab = "Popular & Recommended"

\* the users the current user follows, the current user aside
FollowedOthers == {f[2] : f \in {f \in follows : f[1] = current_user_id}} \ {current_user_id}

\* the sessions of those users at the games of a title
SessionsAt(title) ==
    {i \in 1..Len(plays) :
        /\ plays[i].userid \in FollowedOthers
        /\ plays[i].gameid \in videogame
        /\ names.title[plays[i].gameid] = title}

\* C20: while the popular tab is shown, every row of the followed-users list
\* is a title with at least one session of a followed user, its play count
\* and playtime are those of the sessions of the followed users alone (not
\* of the current user, not of users not followed), the list has at most 20
\* rows and the play counts never increase down the list
C20_Followed ==
    PopularShown =>
        /\ Len(followed_tree) <= 20
        /\ \A i \in DOMAIN followed_tree :
               LET row == followed_tree[i]
               IN  /\ SessionsAt(row.title) # {}
                   /\ row.plays = Cardinality(SessionsAt(row.title))
                   /\ row.playtime_str =
                          format_duration(SumDurations(plays, SessionsAt(row.title)))
        /\ \A i \in 1..(Len(followed_tree) - 1) :
               followed_tree[i].plays >= followed_tree[i + 1].plays

(***************************************************************************)
(* C21.  Registrations that are refused.                                   *)
(***************************************************************************)
\* emails typed into the register frame: none, without "@", without a dot
\* after the "@", that of user a in two spellings, that of user b, a new one
RefusedEmails ==
    {<<>>, <<"a", "b">>, <<"a", "@", "b">>, <<"a", "@", "b", ".", "c">>,
     <<" ", "A", "@", "b", ".", "c">>, <<"b", "@", "b", ".", "c">>,
     <<"x", "@", "b", ".", "c">>}

\* an email without "@", or without a dot after its first "@"
Malformed(email) ==
    \/ \A i \in DOMAIN email : email[i] # "@"
    \/ LET at == Least({i \in DOMAIN email : email[i] = "@"})
       IN  \A i \in (at + 1)..Len(email) : email[i] # "."

\* the two messages of the duplicate check
NameTaken == <<"error", "Username already exists.">>

EmailTaken == <<"error", "Email already exists.">>

\* what register does with the texts typed, for the row fetchone() returns
RegisterOutcomes(fn, ln, e, un, p, F) ==
    LET rows == ExistingUsers(Cur, LowerText(Strip(e)), LowerText(Strip(un)))
    IN  {register(Cur, fn, ln, e, un, p, Salt0, existing_user, F) :
            existing_user \in (IF rows = {} THEN {NoUserRow} ELSE rows)}

AlwaysTrue == {"1=1", "TRUE"}

\* the part of a statement from its WHERE on, GROUP BY and ORDER BY aside
WhereClause(sql) ==
    LET at == {i \in DOMAIN sql : sql[i] = "WHERE"}
    IN  IF at = {} THEN <<>>
        ELSE SelectSeq(SubSeq(sql, Least(at) + 1, Len(sql)),
                       LAMBDA token :
                           token \notin
                               {"GROUP BY g.gameid, g.title, g.esrb_rating, pu.starrating",
                                "ORDER BY g.title ASC, minreleasedate ASC"})

\* C22: when search_games has run with every entry of the search tab empty,
\* the statement it gave to execute has no predicate that is always true in
\* its WHERE clause: nothing follows the joins but GROUP BY and ORDER BY
C22_NoTruePredicate ==
    (search_query.sql # <<>> /\ filters = NoFilters) =>
        /\ \A i \in DOMAIN search_query.sql : search_query.sql[i] \notin AlwaysTrue
        /\ WhereClause(search_query.sql) = <<>>

(***************************************************************************)
(* C23.  Register, then log in.                                            *)
(***************************************************************************)
Created == <<"info", "Account created successfully! Please log in.">>

\* C23: whenever register accepts a username and a password (every field
\* filled, the email well formed, no duplicate), a login that follows with
\* the same username and password as they were typed raises the main frame
\* with current_user_id the id of the new user, also for usernames typed
\* with uppercase letters or with spaces around them
C23_RoundTrip ==
    raised = "RegisterFrame" =>
        \A e \in TypedEmails, un \in TypedUsernames, p \in Passwords, salt \in {Salt0, Salt1} :
            LET r == register(Cur, <<"a">>, <<"a">>, e, un, p, salt, NoUserRow, {})
                l == login([r EXCEPT !.msgs = {}], un, p, {})
            IN  Created \in r.msgs =>
                    /\ l.raised = "MainAppFrame"
                    /\ l.current_user_id = NextUserId(Cur)
                    /\ \E u \in l.users : u.userid = l.current_user_id

(***************************************************************************)
(* C24.  One user after another.                                           *)
(***************************************************************************)
\* C24: while the main frame is raised, every list of it is empty or was
\* computed for the user logged in: the collections are that user's, the
\* rows of the game search come from a statement run with that user's id,
\* the user search does not list the user, the following list holds users
\* the user follows, the profile counts and the followed-users list are the
\* user's, and the recommendations were loaded for that user
C24_NoLeak ==
    raised = "MainAppFrame" =>
        /\ \A row \in coll_tree :
               \E c \in collection :
                   c.collectionid = row.collectionid /\ c.userid = current_user_id
        /\ search_results # {} => search_query.params[1] = NumParam(current_user_id, 1)
        /\ current_user_id \notin search_tree
        /\ following_tree \subseteq FollowedIds(Cur, current_user_id)
        /\ CountsMatch
        /\ followed_tree = FollowedRows(Cur, current_user_id)
        /\ recommendations_tree # <<>> => rec_user = current_user_id

(***************************************************************************)
(* C25.  A rejected login.                                                 *)
(***************************************************************************)
Rejected == <<"error", "Invalid username or password.">>

\* the stored rows a password does not verify against
NotVerified(password) ==
    {u \in users : check_password(u.password, password) # "True"}

\* the typed usernames without a row
Unknown == {un \in TypedUsernames \ {<<>>} : \A u \in users : u.username # un}

\* C25: at the login frame, for every password typed and every failure of
\* the SELECT, a login with a username that has no row and a login with the
\* username of a row the password does not verify against (a wrong password
\* or a stored text that is no salt:hash string) leave the same state; when
\* the SELECT succeeds that state shows 'Invalid username or password.' and
\* nothing else, keeps the users table with every lastaccessdate, and keeps
\* the login frame raised with nobody logged in
C25_SameRejection ==
    raised = "LoginFrame" =>
        \A p \in Passwords, F \in FailSets({"login.select"}) :
            \A known \in NotVerified(p), un \in Unknown :
                LET k == login(Cur, known.username, p, F)
                    n == login(Cur, un, p, F)
                IN  /\ k = n
                    /\ k.users = users
                    /\ k.current_user_id = None
                    /\ k.raised = "LoginFrame"
                    /\ F = {} => k.msgs = {Rejected}

\* a login with 'pw2' was rejected where one row holds the hash of another
\* password and one a text that is no salt:hash string
C25_Witness ==
    /\ raised = "LoginFrame"
    /\ msgs = {Rejected}
    /\ login_password = "pw2"
    /\ users = {UserA, UserBadHash}
    /\ NotVerified("pw2") = users
    /\ Unknown # {}

(***************************************************************************)
(* C26.  The tunnel when the application ends.                             *)
(***************************************************************************)
\* position of the first occurrence of call in calls, 0 when there is none
CallAt(call) ==
    IF \E i \in 1..Len(calls) : calls[i] = call
    THEN Least({i \in 1..Len(calls) : calls[i] = call}) ELSE 0

\* C26: once the window is destroyed no started tunnel is left running, on
\* the path through on_closing and on the path where connect_db fails after
\* the tunnel started; and where the connection was closed, conn.close()
\* was called before server.stop()
C26_TunnelStopped ==
    window = "destroyed" =>
        /\ server # "started"
        /\ conn = "closed" => /\ CallAt("conn.close") > 0
                              /\ CallAt("conn.close") < CallAt("server.stop")

(***************************************************************************)
(* C27.  What delete_collection and rename_collection leave alone.         *)
(***************************************************************************)
\* the tables and the catalog apart from collection and collectiongame
Others(s) ==
    <<s.users, s.plays, s.purchases, s.follows, s.collection_seq, s.videogame,
      s.gamegenre, s.gamedeveloper, s.gamepublisher, s.gameplatform, s.userplatform,
      s.names, s.release>>

\* the calls of the two handlers and of the load they end with
OwnerLabels ==
    AppCalls.rename_collection \cup AppCalls.delete_collection
        \cup {"load_collections.select"}

\* delete_collection, confirmed, has removed the collection of row and its
\* memberships, or (after a failed call) nothing
DeletedOnly(row, F) ==
    LET d == delete_collection(Cur, row, TRUE, F)
        gone == {c \in collection : c.collectionid = row.collectionid}
        members == {cg \in collectiongame : cg[1] = row.collectionid}
        removed == /\ d.collection = collection \ gone
                   /\ d.collectiongame = collectiongame \ members
    IN  /\ Others(d) = Others(Cur)
        /\ Cardinality(gone) = 1
        /\ removed \/ (d.collection = collection /\ d.collectiongame = collectiongame)
        /\ F \cap AppCalls.delete_collection = {} => removed

\* rename_collection has changed the name of the collection of row, which
\* the current user owns, or (after a failed call or a name in use) nothing
RenamedOnly(row, new_name, F) ==
    LET r == rename_collection(Cur, row, new_name, F)
    IN  /\ Others(r) = Others(Cur)
        /\ r.collectiongame = collectiongame
        /\ \/ r.collection = collection
           \/ \E c \in collection :
                  /\ c.collectionid = row.collectionid
                  /\ c.userid = current_user_id
                  /\ r.collection = (collection \ {c}) \cup {[c EXCEPT !.name = new_name]}

\* C27: on the "My Collections" tab, for every row of the list and every
\* failure of a database call: a confirmed delete_collection removes the
\* row's collection with its membership rows and changes no other row of
\* any table; rename_collection changes nothing but the name of the row's
\* collection, which the current user owns; a declined confirmation and a
\* cancelled rename dialog leave the whole state as it was
C27_OnlySelected ==
    OnTab("My Collections") =>
        \A row \in coll_tree, F \in FailSets(OwnerLabels) :
            /\ DeletedOnly(row, F)
            /\ \A n \in TypedCollectionNames : RenamedOnly(row, n, F)
            /\ delete_collection(Cur, row, FALSE, F) = Cur
            /\ rename_collection(Cur, row, <<>>, F) = Cur

\* user a has deleted collection 1 and is shown an empty list, while b's
\* collection 2 still holds its three games and its name
C27_Witness ==
    /\ OnTab("My Collections")
    /\ current_user_id = 1
    /\ coll_tree = {}
    /\ collection = {[collectionid |-> 2, userid |-> 2, name |-> <<"x">>]}
    /\ collectiongame = {<<2, g>> : g \in 1..RecGames}
    /\ dberr = FALSE

(***************************************************************************)
(* C28.  The collections list after the user's own changes.                *)
(***************************************************************************)
\* C28: while the main frame is in front and no detail window is open,
\* every row of the "My Collections" list carries the name, the game count
\* and the total playtime that the tables hold for its collection
C28_Fresh ==
    MainActive =>
        \A row \in coll_tree : row \in CollectionRows(Cur, current_user_id)

(***************************************************************************)
(* C29.  play_random.                                                      *)
(***************************************************************************)
EmptyNotice == <<"info", "Empty Collection">>

\* what random.choice can draw for the selected row (None where the SELECT
\* returned no game and nothing is drawn)
Drawn(row) ==
    IF GamesOfCollection(Cur, row.collectionid) = {} THEN {None}
    ELSE GamesOfCollection(Cur, row.collectionid)

\* play_random run with the row selected, the game drawn and the answer of
\* the duration dialog either leaves plays as it is, or appends one session
\* of the current user for a game that collectiongame holds for the row's
\* collection; it appends none for a collection without games, where it
\* shows the notice unless its SELECT failed, and none for a cancelled dialog
PlayedMember(row, game_id, duration, F) ==
    LET r == play_random(Cur, row, game_id, duration, F)
        members == {cg \in collectiongame : cg[1] = row.collectionid}
    IN  /\ \/ r.plays = plays
           \/ /\ r.plays = Append(plays, [userid |-> current_user_id,
                                          gameid |-> game_id, duration |-> duration])
              /\ <<row.collectionid, game_id>> \in members
        /\ members = {} =>
               /\ r.plays = plays
               /\ "play_random.select" \notin F => r.msgs = {EmptyNotice}
        /\ duration = None => r.plays = plays
        /\ members # {} /\ duration # None /\ F = {} => r.plays # plays

\* C29: on the "My Collections" tab, for every listed row, every game
\* play_random can draw, every answer of the duration dialog and every
\* failure of its calls, a session is logged only for a member of the row's
\* collection, none for an empty collection (the notice is shown) and none
\* when the dialog is cancelled
C29_MemberOnly ==
    OnTab("My Collections") =>
        \A row \in coll_tree, d \in DurationAnswers, F \in FailSets(PlayRandomLabels) :
            \A game_id \in Drawn(row) : PlayedMember(row, game_id, d, F)

\* play_random has logged a session for game 1 of collection x while
\* collection y is listed without games
C29_Witness ==
    /\ OnTab("My Collections")
    /\ msgs = {<<"info", "Logged a random game">>}
    /\ plays = <<[userid |-> 1, gameid |-> 1, duration |-> MinDuration]>>
    /\ <<1, 1>> \in collectiongame
    /\ \E row \in coll_tree : row.gamecount = 0

(***************************************************************************)
(* C30.  A year or a price that is no number.                              *)
(***************************************************************************)
\* the text is not empty and is no decimal numeral: not an optional sign
\* followed by digits with at most one point
NonNumeric(text) ==
    /\ text # <<>>
    /\ ~FloatAt(Signed(Strip(text)).sign, Signed(Strip(text)).body,
                {i \in 1..Len(Signed(Strip(text)).body) : Signed(Strip(text)).body[i] = "."}).ok

\* the entries with the year and the price that are no numbers left empty
WithoutNonNumeric(f) ==
    [f EXCEPT !.year = IF NonNumeric(@) THEN <<>> ELSE @,
              !.price = IF NonNumeric(@) THEN <<>> ELSE @]

\* the entries of the other filters, and the texts typed for year and price
OtherEntries ==
    {NoFilters, [NoFilters EXCEPT !.title = <<"b">>],
     [NoFilters EXCEPT !.developer = <<"a">>, !.platform = <<"a">>]}

YearTexts == {<<>>, <<"7">>, <<"x">>, <<"n", "a", "n">>}

PriceTexts == {<<>>, <<"7", ".", "5">>, <<"x">>, <<".">>, <<"n", "a", "n">>, <<"-", "i", "n", "f">>}

\* search_games with the entries f and with the entries g
SameSearch(f, g) ==
    /\ search_games([Cur EXCEPT !.filters = f], {}).search_query
           = search_games([Cur EXCEPT !.filters = g], {}).search_query
    /\ search_games([Cur EXCEPT !.filters = f], {}).search_results
           = search_games([Cur EXCEPT !.filters = g], {}).search_results
    /\ search_games([Cur EXCEPT !.filters = f], {}).search_order
           = search_games([Cur EXCEPT !.filters = g], {}).search_order

WarnedOf(f) ==
    (IF NonNumeric(f.year) THEN {<<"warning", "Invalid Release Year">>} ELSE {})
    \cup (IF NonNumeric(f.price) THEN {<<"warning", "Invalid Price">>} ELSE {})

\* C30: on the search tab, for every combination of the other entries with
\* a year and a price of which at least one is no number, search_games
\* shows the warning of each such field, and the statement, the parameters
\* and the rows are those of the search with these fields left empty
C30_Ignored ==
    OnTab("Search Games") =>
        \A o \in OtherEntries, y \in YearTexts, p \in PriceTexts :
            LET f == [o EXCEPT !.year = y, !.price = p]
            IN  WithoutNonNumeric(f) # f =>
                    /\ WarnedOf(f) \subseteq search_games([Cur EXCEPT !.filters = f], {}).msgs
                    /\ SameSearch(f, WithoutNonNumeric(f))

====
